---- MODULE Spec2Model ----
(***************************************************************************)
(* A model of the DistributeCache node: the LRU partition, the single-     *)
(* flight coordinator, the cache Group, the consistent-hash ring, the      *)
(* registry, the RPC client and the RPC server of one connection.          *)
(*                                                                         *)
(* Strings and byte slices are sequences of byte codes (48 is "0").        *)
(* Each subsystem has its own specification; the variables of the other    *)
(* subsystems stay at their initial values under it.                       *)
(***************************************************************************)
EXTENDS Integers, Sequences, FiniteSets, TLC

VARIABLES
    lru,      \* the lru.Cache (a Group's mainCache, or a Cache used directly)
    m,        \* singleflight Group.m: key -> index of the in-flight call
    call,     \* the singleflight call objects allocated so far
    proc,     \* per goroutine: position in Do / Group.Get and what it returned
    hist,     \* history of the Group and singleflight runs (observation only)
    out,      \* what the last operation of a sequential run returned
    ring,     \* a consistenthash.Map used on its own
    ringHist, \* the peer set its operations leave, and the last operation
    reg,      \* the RPCRegistery: timeout, peers (its ring) and timeMap
    mu,       \* the holder of the registry's mutex, 0 when unlocked
    now,      \* the registry's clock, in minutes
    regProc,  \* per registry handler and the reaper: position and request
    regHist,  \* history of the registry's steps (observation only)
    cli,      \* the rpc Client of one connection
    wire,     \* the header Seqs the connection carried, in write order
    cliProc,  \* per caller of Go: position in send and the Seq it was given
    cliHist,  \* history of the client's run (observation only)
    srv,      \* the rpc Server's side of one connection
    req,      \* the requests the server read, with their handler goroutines
    sf,       \* a Snowflake generator
    clk       \* the millisecond clock the generator reads

groupVars == <<m, call, proc, hist>>

cacheVars == <<lru, m, call, proc, hist, out>>

ringVars == <<ring, ringHist>>

regVars == <<reg, mu, now, regProc, regHist>>

cliVars == <<cli, wire, cliProc, cliHist>>

srvVars == <<srv, req>>

idVars == <<sf, clk>>

netVars == <<ringVars, regVars, cliVars, srvVars, idVars>>

vars == <<cacheVars, netVars>>

(***************************************************************************)
(* Go maps as functions with a changing domain.                            *)
(***************************************************************************)
EmptyMap == [x \in {} |-> 0]

FnPut(f, k, v) == [x \in DOMAIN f \cup {k} |-> IF x = k THEN v ELSE f[x]]

FnDel(f, k) == [x \in DOMAIN f \ {k} |-> f[x]]

Range(f) == {f[x] : x \in DOMAIN f}

SeqRange(s) == {s[i] : i \in 1..Len(s)}

(***************************************************************************)
(* Bounds of the model.                                                    *)
(***************************************************************************)
NProcs == 3

MaxCalls == 4

NServers == 2

MaxReqs == 3

MaxBytes == 5

MaxReplicas == 2

MaxRingOps == 4

NHandlers == 2

MaxRegOps == 3

MaxTime == 6

NCallers == 2

MaxSends == 3
\* the capacity of the done channel a caller shares among its calls
DoneCap == 1

\* requests read on one server connection
MaxConnReqs == 2

\* milliseconds the clock of a generator runs
MaxMillis == 2

Procs == 1..NProcs

\* the goroutines serving requests on one node
Servers == 1..NServers

\* cache keys "k" and "kk", values "v" and "vv"
Keys == {<<107>>, <<107, 107>>}

Values == {<<118>>, <<118, 118>>}

\* what the origin (or a thunk) can hand back: "w"
Loadable == {<<119>>}

(***************************************************************************)
(* ByteView: an immutable view of bytes; lru.Value with Len().             *)
(***************************************************************************)
ByteView(bytes) == [b |-> bytes]

ByteSlice(v) == v.b

ValueLen(v) == Len(v.b)

NoView == [b |-> <<>>]

(***************************************************************************)
(* lru.Cache.  ll is the recency list of element ids, front first; elem    *)
(* holds the entry of every element still referenced; cache is the index   *)
(* key -> element.  evicted lists the entries handed to OnEvicted by the   *)
(* last operation; hung is set when Add would spin on an empty list.       *)
(***************************************************************************)
CacheNew(maxBytes) ==
    [maxBytes |-> maxBytes, nbytes |-> 0, ll |-> <<>>, elem |-> EmptyMap,
     cache |-> EmptyMap, evicted |-> <<>>, hung |-> FALSE]

\* container/list: both are no-ops on an element that is not in the list
MoveToFront(ll, e) ==
    IF e \in SeqRange(ll) THEN <<e>> \o SelectSeq(ll, LAMBDA x : x # e) ELSE ll

ListRemove(ll, e) == SelectSeq(ll, LAMBDA x : x # e)

\* an element unreachable from both the list and the index is garbage
Prune(c) ==
    [c EXCEPT !.elem = [e \in (SeqRange(c.ll) \cup Range(c.cache)) \cap DOMAIN c.elem
                           |-> c.elem[e]]]

NewElem(c) == CHOOSE e \in 1..(Cardinality(DOMAIN c.elem) + 1) : e \notin DOMAIN c.elem

\* mutant: a hit does not move the element to the front
CacheGetNoPromote(c0, key) ==
    LET c == [c0 EXCEPT !.evicted = <<>>] IN
    IF key \in DOMAIN c.cache
    THEN [c |-> c, value |-> c.elem[c.cache[key]].value, ok |-> TRUE]
    ELSE [c |-> c, value |-> NoView, ok |-> FALSE]

CacheGet(c0, key) ==
    LET c == [c0 EXCEPT !.evicted = <<>>] IN
    IF key \in DOMAIN c.cache
    THEN LET ele == c.cache[key] IN
         [c |-> [c EXCEPT !.ll = MoveToFront(c.ll, ele)],
          value |-> c.elem[ele].value, ok |-> TRUE]
    ELSE [c |-> c, value |-> NoView, ok |-> FALSE]

RemoveOldest(c) ==
    IF c.ll = <<>> THEN c
    ELSE LET ele == c.ll[Len(c.ll)]
             kv == c.elem[ele]
         IN Prune([c EXCEPT !.ll = SubSeq(c.ll, 1, Len(c.ll) - 1),
                            !.cache = FnDel(c.cache, kv.key),
                            !.nbytes = c.nbytes - (Len(kv.key) + ValueLen(kv.value)),
                            !.evicted = Append(c.evicted, kv)])

\* mutant: the loop compares the capacity with the entry count, not the bytes
EvictByCount(c) ==
    IF c.maxBytes # 0 /\ c.maxBytes < Len(c.ll) THEN RemoveOldest(c) ELSE c

RECURSIVE EvictWhileOver(_)
EvictWhileOver(c) ==
    IF c.maxBytes # 0 /\ c.maxBytes < c.nbytes
    THEN IF c.ll = <<>> THEN [c EXCEPT !.hung = TRUE]
         ELSE EvictWhileOver(RemoveOldest(c))
    ELSE c

\* mutant: an update that forgets kv.value = value
AddEntryKeepsOld(c, key, value) ==
    IF key \in DOMAIN c.cache
    THEN LET ele == c.cache[key]
             kv == c.elem[ele]
         IN [c EXCEPT !.ll = MoveToFront(c.ll, ele),
                      !.nbytes = c.nbytes + ValueLen(value) - ValueLen(kv.value)]
    ELSE LET ele == NewElem(c)
         IN EvictWhileOver(
              [c EXCEPT !.ll = <<ele>> \o c.ll,
                        !.elem = FnPut(c.elem, ele, [key |-> key, value |-> value]),
                        !.cache = FnPut(c.cache, key, ele),
                        !.nbytes = c.nbytes + Len(key) + ValueLen(value)])

\* the body of Add before its final eviction loop
AddEntry(c, key, value) ==
    IF key \in DOMAIN c.cache
    THEN LET ele == c.cache[key]
             kv == c.elem[ele]
         IN [c EXCEPT !.ll = MoveToFront(c.ll, ele),
                      !.nbytes = c.nbytes + ValueLen(value) - ValueLen(kv.value),
                      !.elem = [c.elem EXCEPT ![ele] = [key |-> kv.key, value |-> value]]]
    ELSE LET ele == NewElem(c)
         IN EvictWhileOver(
              [c EXCEPT !.ll = <<ele>> \o c.ll,
                        !.elem = FnPut(c.elem, ele, [key |-> key, value |-> value]),
                        !.cache = FnPut(c.cache, key, ele),
                        !.nbytes = c.nbytes + Len(key) + ValueLen(value)])

CacheAdd(c0, key, value) ==
    EvictWhileOver(AddEntry([c0 EXCEPT !.evicted = <<>>], key, value))

\* mutant: Delete leaves the byte count as it was
CacheDeleteKeepsBytes(c0, key) ==
    LET c == [c0 EXCEPT !.evicted = <<>>] IN
    IF key \in DOMAIN c.cache
    THEN LET ele == c.cache[key]
             kv == c.elem[ele]
         IN [c |-> Prune([c EXCEPT !.ll = ListRemove(c.ll, ele),
                                   !.cache = FnDel(c.cache, kv.key),
                                   !.evicted = <<kv>>]),
             err |-> ""]
    ELSE [c |-> c, err |-> "key not found"]

CacheDelete(c0, key) ==
    LET c == [c0 EXCEPT !.evicted = <<>>] IN
    IF key \in DOMAIN c.cache
    THEN LET ele == c.cache[key]
             kv == c.elem[ele]
         IN [c |-> Prune([c EXCEPT !.ll = ListRemove(c.ll, ele),
                                   !.cache = FnDel(c.cache, kv.key),
                                   !.nbytes = c.nbytes - (Len(kv.key) + ValueLen(kv.value)),
                                   !.evicted = <<kv>>]),
             err |-> ""]
    ELSE [c |-> c, err |-> "key not found"]

CacheLen(c) == Len(c.ll)

(***************************************************************************)
(* What a sequential run remembers of its last operation.                  *)
(***************************************************************************)
\* recent (observation only): the stored keys, the latest added or hit first
NoOut ==
    [op |-> "none", key |-> <<>>, value |-> NoView, ok |-> FALSE, err |-> "",
     recent |-> <<>>]

\* the keys a Cache is driven with directly: "k", "kk" and "j"
LruKeys == Keys \cup {<<106>>}

\* key becomes the most recent one
Touch(recent, key) == <<key>> \o SelectSeq(recent, LAMBDA k : k # key)

\* the recency order of the keys c still stores
Kept(recent, c) == SelectSeq(recent, LAMBDA k : k \in DOMAIN c.cache)

(***************************************************************************)
(* lru.Cache driven directly, one operation at a time.                     *)
(***************************************************************************)
LruInit == \E cap \in 0..MaxBytes : lru = CacheNew(cap)

LruAdd(key, value) ==
    /\ lru' = CacheAdd(lru, key, ByteView(value))
    /\ out' = [op |-> "Add", key |-> key, value |-> ByteView(value), ok |-> TRUE, err |-> "",
               recent |-> Kept(Touch(out.recent, key), lru')]

LruGet(key) ==
    LET r == CacheGet(lru, key) IN
    /\ lru' = r.c
    /\ out' = [op |-> "Get", key |-> key, value |-> r.value, ok |-> r.ok, err |-> "",
               recent |-> IF r.ok THEN Touch(out.recent, key) ELSE out.recent]

LruDelete(key) ==
    LET r == CacheDelete(lru, key) IN
    /\ lru' = r.c
    /\ out' = [op |-> "Delete", key |-> key, value |-> NoView, ok |-> r.err = "", err |-> r.err,
               recent |-> Kept(out.recent, lru')]

LruRemoveOldest ==
    /\ lru' = RemoveOldest([lru EXCEPT !.evicted = <<>>])
    /\ out' = [NoOut EXCEPT !.op = "RemoveOldest", !.recent = Kept(out.recent, lru')]

(***************************************************************************)
(* singleflight.Group.Do.  A call is (wg, val, err); wg is the WaitGroup   *)
(* counter.  The sections under g.mu do not block, so each is one step.    *)
(* A goroutine is a slot of proc: a new invocation takes the lowest idle   *)
(* slot and frees it when it returns.  Observation only: fin (the thunk    *)
(* has returned), got (the pairs Do has returned from this call) and hist. *)
(***************************************************************************)
\* what a thunk (or the origin loader) can produce: bytes, or an error
Results ==
    {[val |-> ByteView(v), err |-> ""] : v \in Loadable}
        \cup {[val |-> NoView, err |-> "load failed"]}

IdleProc ==
    [pc |-> "idle", op |-> "none", key |-> <<>>, c |-> 0, role |-> "none",
     ran |-> FALSE, loaded |-> NoView, gen |-> 0]

NoReturn ==
    [op |-> "none", key |-> <<>>, role |-> "none", ran |-> FALSE, c |-> 0,
     val |-> NoView, err |-> "", wg |-> 0, fin |-> FALSE]

HistInit ==
    [ops |-> 0,                          \* operations started so far
     fnCalls |-> [k \in Keys |-> 0],     \* thunk invocations per key
     gets |-> [k \in Keys |-> 0],        \* Group.Get calls started per key
     ended |-> [k \in Keys |-> FALSE],   \* some Group.Get(k) has returned
     serial |-> [k \in Keys |-> FALSE],  \* a Get(k) started after another returned
     exited |-> [k \in Keys |-> FALSE],  \* some Do(k) has deleted its in-flight entry
     gen |-> [k \in Keys |-> 0],         \* how many Do(k) have done so and returned
     late |-> [k \in Keys |-> FALSE],    \* a Do(k) looked the key up after that
     mutated |-> FALSE,                  \* an Insert or Delete has run
     last |-> NoOut,                     \* the last operation applied to the cache
     prev |-> NoOut,                     \* and the one before it
     ret |-> NoReturn]                   \* the last return of Do or of a Group operation

SfInit ==
    /\ m = EmptyMap
    /\ call = EmptyMap
    /\ proc = [p \in Procs |-> IdleProc]
    /\ hist = HistInit

\* gen: the number of thunk-running Do(key) that returned before this start
Begin(op, key) == [IdleProc EXCEPT !.op = op, !.key = key, !.gen = hist.gen[key]]

\* p is the slot a new goroutine among S takes
FreeSlot(S, p) ==
    /\ p \in S
    /\ proc[p].pc = "idle"
    /\ \A q \in S : q < p => proc[q].pc # "idle"

\* call objects that no goroutine, map entry or observation refers to are garbage
Live(cl, mm, pr, h) ==
    [c \in DOMAIN cl \cap (Range(mm) \cup {pr[p].c : p \in Procs} \cup {h.ret.c}) |-> cl[c]]

NewCall == CHOOSE c \in 1..(Cardinality(DOMAIN call) + 1) : c \notin DOMAIN call

\* what Do returns from call c, as seen by goroutine p
Returned(p) ==
    LET c == proc[p].c IN
    [op |-> proc[p].op, key |-> proc[p].key, role |-> proc[p].role, ran |-> proc[p].ran,
     c |-> c, val |-> call[c].val, err |-> call[c].err, wg |-> call[c].wg,
     fin |-> call[c].fin]

Pair(r) == [val |-> r.val, err |-> r.err]

\* a caller invokes Do(key, fn)
DoCall(p, key) ==
    /\ FreeSlot(Procs, p)
    /\ hist.ops < MaxCalls
    /\ proc' = [proc EXCEPT ![p] = [Begin("Do", key) EXCEPT !.pc = "enter"]]
    /\ hist' = [hist EXCEPT !.ops = @ + 1]
    /\ UNCHANGED <<m, call>>

\* mutant: the in-flight lookup is skipped, every caller registers its own call
DoEnterNoJoin(p) ==
    /\ proc[p].pc = "enter"
    /\ LET key == proc[p].key IN
       /\ call' = FnPut(call, NewCall,
                        [wg |-> 1, val |-> NoView, err |-> "", fin |-> FALSE, got |-> {},
                                 gen |-> hist.gen[key]])
       /\ m' = FnPut(m, key, NewCall)
       /\ proc' = [proc EXCEPT ![p].pc = "call_fn", ![p].c = NewCall, ![p].role = "leader"]
       /\ hist' = [hist EXCEPT !.late[key] = @ \/ hist.exited[key]]

\* g.mu.Lock() ... g.mu.Unlock(): join the in-flight call or register a new one
DoEnter(p) ==
    /\ proc[p].pc = "enter"
    /\ LET key == proc[p].key IN
       /\ IF key \in DOMAIN m
          THEN /\ proc' = [proc EXCEPT ![p].pc = "wait", ![p].c = m[key], ![p].role = "waiter"]
               /\ UNCHANGED <<m, call>>
          ELSE /\ call' = FnPut(call, NewCall,
                                [wg |-> 1, val |-> NoView, err |-> "", fin |-> FALSE, got |-> {},
                                 gen |-> hist.gen[key]])
               /\ m' = FnPut(m, key, NewCall)
               /\ proc' = [proc EXCEPT ![p].pc = "call_fn", ![p].c = NewCall,
                                       ![p].role = "leader"]
       /\ hist' = [hist EXCEPT !.late[key] = @ \/ hist.exited[key]]

\* mutant: the waiter returns without c.wg.Wait()
WaitReturnNoWait(p) ==
    /\ proc[p].pc = "wait"
    /\ proc' = [proc EXCEPT ![p] = IdleProc]
    /\ hist' = [hist EXCEPT !.ended[proc[p].key] = @ \/ proc[p].op = "Get",
                            !.ret = Returned(p)]
    /\ call' = Live([call EXCEPT ![proc[p].c].got = @ \cup {Pair(Returned(p))}],
                    m, proc', hist')
    /\ m' = m

\* c.wg.Wait(); return c.val, c.err
WaitReturn(p) ==
    /\ proc[p].pc = "wait"
    /\ call[proc[p].c].wg = 0
    /\ proc' = [proc EXCEPT ![p] = IdleProc]
    /\ hist' = [hist EXCEPT !.ended[proc[p].key] = @ \/ proc[p].op = "Get",
                            !.ret = Returned(p)]
    /\ call' = Live([call EXCEPT ![proc[p].c].got = @ \cup {Pair(Returned(p))}],
                    m, proc', hist')
    /\ m' = m

\* mutant: the in-flight entry is deleted before fn runs instead of after it
ThunkStartUnmarks(p) ==
    /\ proc[p].pc = "call_fn"
    /\ proc' = [proc EXCEPT ![p].pc = "in_fn", ![p].ran = TRUE]
    /\ hist' = [hist EXCEPT !.fnCalls[proc[p].key] = @ + 1]
    /\ m' = FnDel(m, proc[p].key)
    /\ call' = call

\* fn() is entered
ThunkStart(p) ==
    /\ proc[p].pc = "call_fn"
    /\ proc' = [proc EXCEPT ![p].pc = "in_fn", ![p].ran = TRUE]
    /\ hist' = [hist EXCEPT !.fnCalls[proc[p].key] = @ + 1]
    /\ UNCHANGED <<m, call>>

\* c.val, c.err = fn() for an arbitrary thunk
ThunkReturn(p) ==
    /\ proc[p].pc = "in_fn"
    /\ proc[p].op = "Do"
    /\ \E r \in Results :
          call' = [call EXCEPT ![proc[p].c].val = r.val, ![proc[p].c].err = r.err,
                               ![proc[p].c].fin = TRUE]
    /\ proc' = [proc EXCEPT ![p].pc = "fn_done"]
    /\ UNCHANGED <<m, hist>>

\* c.wg.Done()
WgDone(p) ==
    /\ proc[p].pc = "fn_done"
    /\ call' = [call EXCEPT ![proc[p].c].wg = @ - 1]
    /\ proc' = [proc EXCEPT ![p].pc = "unmark"]
    /\ UNCHANGED <<m, hist>>

\* mutant: Do returns and leaves the key's entry in the in-flight map
DoExitKeepsEntry(p) ==
    /\ proc[p].pc = "unmark"
    /\ m' = m
    /\ proc' = [proc EXCEPT ![p] = IdleProc]
    /\ hist' = [hist EXCEPT !.exited[proc[p].key] = TRUE,
                            !.gen[proc[p].key] = @ + 1,
                            !.ended[proc[p].key] = @ \/ proc[p].op = "Get",
                            !.ret = Returned(p)]
    /\ call' = Live([call EXCEPT ![proc[p].c].got = @ \cup {Pair(Returned(p))}],
                    m', proc', hist')

\* g.mu.Lock(); delete(g.m, key); g.mu.Unlock(); return c.val, c.err
DoExit(p) ==
    /\ proc[p].pc = "unmark"
    /\ m' = FnDel(m, proc[p].key)
    /\ proc' = [proc EXCEPT ![p] = IdleProc]
    /\ hist' = [hist EXCEPT !.exited[proc[p].key] = TRUE,
                            !.gen[proc[p].key] = @ + 1,
                            !.ended[proc[p].key] = @ \/ proc[p].op = "Get",
                            !.ret = Returned(p)]
    /\ call' = Live([call EXCEPT ![proc[p].c].got = @ \cup {Pair(Returned(p))}],
                    m', proc', hist')

(***************************************************************************)
(* The cache Group: Get serves from the LRU under the Group lock, or on a  *)
(* miss runs Do(key, load); load calls the origin loader, wraps a copy of  *)
(* the bytes and adds it to the LRU.  Insert and Delete work on the LRU    *)
(* under the Group lock.                                                   *)
(***************************************************************************)
CloneBytes(b) == [i \in 1..Len(b) |-> b[i]]

\* the return of an operation that never entered Do
Direct(op, key, role, val, err) ==
    [NoReturn EXCEPT !.op = op, !.key = key, !.role = role, !.val = val, !.err = err]

GetStart(p, key) ==
    /\ FreeSlot(Servers, p)
    /\ hist.ops < MaxReqs
    /\ LET r == CacheGet(lru, key) IN
       /\ lru' = r.c
       /\ proc' = [proc EXCEPT ![p] =
                     IF r.ok THEN IdleProc ELSE [Begin("Get", key) EXCEPT !.pc = "enter"]]
       /\ hist' = [hist EXCEPT !.ops = @ + 1,
                               !.gets[key] = @ + 1,
                               !.serial[key] = @ \/ hist.ended[key],
                               !.ended[key] = @ \/ r.ok,
                               !.prev = hist.last, !.last = [op |-> "Get", key |-> key, value |-> r.value,
                                         ok |-> r.ok, err |-> ""],
                               !.ret = IF r.ok THEN Direct("Get", key, "hit", r.value, "")
                                       ELSE @]
       /\ call' = Live(call, m, proc', hist')
    /\ m' = m

\* the origin loader returns inside load
LoaderReturn(p) ==
    /\ proc[p].pc = "in_fn"
    /\ proc[p].op = "Get"
    /\ \E r \in Results :
          IF r.err # ""
          THEN /\ call' = [call EXCEPT ![proc[p].c].val = NoView, ![proc[p].c].err = r.err,
                                       ![proc[p].c].fin = TRUE]
               /\ proc' = [proc EXCEPT ![p].pc = "fn_done"]
          ELSE /\ proc' = [proc EXCEPT ![p].pc = "populate",
                                       ![p].loaded = ByteView(CloneBytes(ByteSlice(r.val)))]
               /\ call' = call
    /\ UNCHANGED <<m, hist, lru>>

\* load adds the value to the LRU under the Group lock and returns it
Populate(p) ==
    /\ proc[p].pc = "populate"
    /\ lru' = CacheAdd(lru, proc[p].key, proc[p].loaded)
    /\ call' = [call EXCEPT ![proc[p].c].val = proc[p].loaded, ![proc[p].c].err = "",
                            ![proc[p].c].fin = TRUE]
    /\ proc' = [proc EXCEPT ![p].pc = "fn_done"]
    /\ hist' = [hist EXCEPT !.prev = hist.last, !.last = [op |-> "Populate", key |-> proc[p].key,
                                      value |-> proc[p].loaded, ok |-> TRUE, err |-> ""]]
    /\ m' = m

GroupInsert(p, key, value) ==
    /\ FreeSlot(Servers, p)
    /\ hist.ops < MaxReqs
    /\ lru' = CacheAdd(lru, key, ByteView(value))
    /\ hist' = [hist EXCEPT !.ops = @ + 1, !.mutated = TRUE,
                            !.prev = hist.last, !.last = [op |-> "Insert", key |-> key, value |-> ByteView(value),
                                      ok |-> TRUE, err |-> ""],
                            !.ret = Direct("Insert", key, "none", NoView, "")]
    /\ call' = Live(call, m, proc, hist')
    /\ UNCHANGED <<m, proc>>

GroupDelete(p, key) ==
    /\ FreeSlot(Servers, p)
    /\ hist.ops < MaxReqs
    /\ LET r == CacheDelete(lru, key) IN
       /\ lru' = r.c
       /\ hist' = [hist EXCEPT !.ops = @ + 1, !.mutated = TRUE,
                               !.prev = hist.last, !.last = [op |-> "Delete", key |-> key, value |-> NoView,
                                         ok |-> r.err = "", err |-> r.err],
                               !.ret = Direct("Delete", key, "none", NoView, r.err)]
    /\ call' = Live(call, m, proc, hist')
    /\ UNCHANGED <<m, proc>>

(***************************************************************************)
(* consistenthash.Map.  A uint32 is <<high 16 bits, low 16 bits>> so that  *)
(* every hash value stays inside the checker's integers; Go's int(uint32)  *)
(* keeps the unsigned order, which is Less below.                          *)
(***************************************************************************)
RECURSIVE Xor16(_, _, _)
Xor16(a, b, n) ==
    IF n = 0 THEN 0
    ELSE ((a + b) % 2) + 2 * Xor16(a \div 2, b \div 2, n - 1)

Xor32(x, y) == <<Xor16(x[1], y[1], 16), Xor16(x[2], y[2], 16)>>

Shr1(x) == <<x[1] \div 2, (x[2] \div 2) + (x[1] % 2) * 32768>>

\* the reflected IEEE polynomial 0xEDB88320
Poly == <<60856, 33568>>

AllOnes == <<65535, 65535>>

RECURSIVE CrcBits(_, _)
CrcBits(crc, n) ==
    IF n = 0 THEN crc
    ELSE CrcBits(IF crc[2] % 2 = 1 THEN Xor32(Shr1(crc), Poly) ELSE Shr1(crc), n - 1)

RECURSIVE CrcUpdate(_, _)
CrcUpdate(crc, data) ==
    IF data = <<>> THEN crc
    ELSE CrcUpdate(CrcBits(Xor32(crc, <<0, Head(data)>>), 8), Tail(data))

\* crc32.ChecksumIEEE
ChecksumIEEE(data) == Xor32(CrcUpdate(AllOnes, data), AllOnes)

\* a Hash a caller may inject: the sum of the bytes
RECURSIVE ByteSum(_)
ByteSum(data) ==
    IF data = <<>> THEN <<0, 0>>
    ELSE <<0, (Head(data) + ByteSum(Tail(data))[2]) % 65536>>

\* strconv.Itoa for i >= 0
RECURSIVE Itoa(_)
Itoa(i) == IF i < 10 THEN <<48 + i>> ELSE Itoa(i \div 10) \o <<48 + (i % 10)>>

\* the peer names put on a ring
Peers == {<<97>>, <<98>>}

\* every string the model hashes: virtual node names and lookup keys
Hashed == {Itoa(i) \o p : i \in 0..9, p \in Peers} \cup Keys

\* ChecksumIEEE, computed once for the strings the model hashes
Crc32Table == [s \in Hashed |-> ChecksumIEEE(s)]

HashFns == {"nil", "sum"}

\* m.hash(data); a nil fn was replaced by crc32.ChecksumIEEE in New
Hash(fn, data) ==
    IF fn = "sum" THEN ByteSum(data)
    ELSE IF data \in Hashed THEN Crc32Table[data] ELSE ChecksumIEEE(data)

Less(a, b) == a[1] < b[1] \/ (a[1] = b[1] /\ a[2] < b[2])

MapNew(replicas, fn) ==
    [replicas |-> replicas, hash |-> fn, keys |-> <<>>, hashMap |-> EmptyMap]

InsertSorted(s, x) ==
    LET k == Cardinality({j \in 1..Len(s) : ~Less(x, s[j])})
    IN SubSeq(s, 1, k) \o <<x>> \o SubSeq(s, k + 1, Len(s))

\* sort.Ints
RECURSIVE SortInts(_)
SortInts(s) == IF s = <<>> THEN <<>> ELSE InsertSorted(SortInts(Tail(s)), Head(s))

\* sort.Search(len(keys), func(i) { return keys[i] >= hash }), 0-based
RECURSIVE Search(_, _, _, _)
Search(keys, hash, i, j) ==
    IF i < j
    THEN LET h == (i + j) \div 2
         IN IF Less(keys[h + 1], hash) THEN Search(keys, hash, h + 1, j)
            ELSE Search(keys, hash, i, h)
    ELSE i

RECURSIVE AddLoop(_, _, _)
AddLoop(mp, key, i) ==
    IF i >= mp.replicas THEN mp
    ELSE LET hash == Hash(mp.hash, Itoa(i) \o key)
         IN AddLoop([mp EXCEPT !.keys = Append(@, hash),
                               !.hashMap = FnPut(@, hash, key)],
                    key, i + 1)

MapAdd(mp, key) == [AddLoop(mp, key, 0) EXCEPT !.keys = SortInts(@)]

MapGet(mp, key) ==
    IF Len(mp.keys) = 0 THEN <<>>
    ELSE LET hash == Hash(mp.hash, key)
             idx == Search(mp.keys, hash, 0, Len(mp.keys))
             k == mp.keys[(idx % Len(mp.keys)) + 1]
         IN IF k \in DOMAIN mp.hashMap THEN mp.hashMap[k] ELSE <<>>

RECURSIVE RemoveLoop(_, _, _)
RemoveLoop(mp, key, i) ==
    IF i >= mp.replicas THEN mp
    ELSE LET hash == Hash(mp.hash, Itoa(i) \o key)
             idx == Search(mp.keys, hash, 0, Len(mp.keys))
         IN IF idx < Len(mp.keys) /\ mp.keys[idx + 1] = hash
            THEN RemoveLoop([mp EXCEPT !.hashMap = FnDel(@, hash),
                                       !.keys = SubSeq(@, 1, idx) \o SubSeq(@, idx + 2, Len(@))],
                            key, i + 1)
            ELSE RemoveLoop(mp, key, i + 1)

MapRemove(mp, key) == RemoveLoop(mp, key, 0)

(***************************************************************************)
(* A ring driven one operation at a time, by direct calls and by the       *)
(* discovery watcher.  ringHist.P is the peer set the operations leave.    *)
(***************************************************************************)
RingInit ==
    /\ \E r \in 1..MaxReplicas, fn \in HashFns : ring = MapNew(r, fn)
    /\ ringHist = [P |-> {}, ops |-> 0, op |-> "none", arg |-> <<>>, ret |-> <<>>]

RingAdd(peer) ==
    /\ ringHist.ops < MaxRingOps
    /\ ring' = MapAdd(ring, peer)
    /\ ringHist' = [P |-> ringHist.P \cup {peer}, ops |-> ringHist.ops + 1,
                    op |-> "Add", arg |-> peer, ret |-> <<>>]

RingRemove(peer) ==
    /\ ringHist.ops < MaxRingOps
    /\ ring' = MapRemove(ring, peer)
    /\ ringHist' = [P |-> ringHist.P \ {peer}, ops |-> ringHist.ops + 1,
                    op |-> "Remove", arg |-> peer, ret |-> <<>>]

RingGet(key) ==
    /\ ring' = ring
    /\ ringHist' = [ringHist EXCEPT !.op = "Get", !.arg = key, !.ret = MapGet(ring, key)]

\* WatchServers: a put event adds the value, a delete event removes it
WatchEvent(type, value) ==
    /\ ringHist.ops < MaxRingOps
    /\ ring' = IF type = "PUT" THEN MapAdd(ring, value) ELSE MapRemove(ring, value)
    /\ ringHist' = [P |-> IF type = "PUT" THEN ringHist.P \cup {value}
                          ELSE ringHist.P \ {value},
                    ops |-> ringHist.ops + 1,
                    op |-> IF type = "PUT" THEN "Add" ELSE "Remove",
                    arg |-> value, ret |-> <<>>]

\* the replicas of the registry's ring and of the ring of startAPIServer
defaultRPCReplice == 10

(***************************************************************************)
(* The ring of startAPIServer in discovery mode: the WatchServers          *)
(* goroutine applies Add and Remove one statement at a time, with no       *)
(* mutex, while the lookup handler calls Get.  ringHist.w is the position  *)
(* of the watcher inside the event it applies, ringHist.pre the ring as it *)
(* was when that event began; flip changes at every Get.  A Get reads the  *)
(* ring between two statements of the watcher; sort.Ints is one step.      *)
(***************************************************************************)
NoWatch == [pc |-> "idle", type |-> "none", value |-> <<>>, i |-> 0]

\* peers := consistenthash.New(defaultRPCReplice, nil)
WatchInit ==
    /\ ring = MapNew(defaultRPCReplice, "nil")
    /\ ringHist = [P |-> {}, ops |-> 0, op |-> "none", arg |-> <<>>, ret |-> <<>>,
                   w |-> NoWatch, pre |-> ring, flip |-> FALSE]

\* the hash of the virtual node the watcher's loop is at
WatchHash == Hash(ring.hash, Itoa(ringHist.w.i) \o ringHist.w.value)

\* the loop of Add or Remove after iteration i
WatchLoop(first) ==
    IF ringHist.w.i + 1 < ring.replicas
    THEN [ringHist EXCEPT !.w.i = @ + 1, !.w.pc = first]
    ELSE IF ringHist.w.type = "PUT"
    THEN [ringHist EXCEPT !.w.pc = "sort"]
    ELSE [ringHist EXCEPT !.w = NoWatch, !.P = @ \ {ringHist.w.value}]

\* WatchServers takes an event: peers.Add or peers.Remove begins
WatchBegin(type, value) ==
    /\ ringHist.w.pc = "idle"
    /\ ringHist.ops < MaxRingOps
    /\ ringHist' = [ringHist EXCEPT
          !.w = [pc |-> IF type = "PUT" THEN "append" ELSE "search",
                 type |-> type, value |-> value, i |-> 0],
          !.pre = ring, !.ops = @ + 1,
          !.op = IF type = "PUT" THEN "Add" ELSE "Remove", !.arg = value, !.ret = <<>>]
    /\ ring' = ring

\* Add: m.keys = append(m.keys, hash)
AddAppend ==
    /\ ringHist.w.pc = "append"
    /\ ring' = [ring EXCEPT !.keys = Append(@, WatchHash)]
    /\ ringHist' = [ringHist EXCEPT !.w.pc = "map"]

\* Add: m.hashMap[hash] = key, and the loop goes on
AddMap ==
    /\ ringHist.w.pc = "map"
    /\ ring' = [ring EXCEPT !.hashMap = FnPut(@, WatchHash, ringHist.w.value)]
    /\ ringHist' = WatchLoop("append")

\* Add: sort.Ints(m.keys)
AddSort ==
    /\ ringHist.w.pc = "sort"
    /\ ring' = [ring EXCEPT !.keys = SortInts(@)]
    /\ ringHist' = [ringHist EXCEPT !.w = NoWatch, !.P = @ \cup {ringHist.w.value}]

\* Remove: sort.SearchInts, and delete(m.hashMap, hash) when the hash is found
RemoveDelete ==
    /\ ringHist.w.pc = "search"
    /\ LET idx == Search(ring.keys, WatchHash, 0, Len(ring.keys))
       IN IF idx < Len(ring.keys) /\ ring.keys[idx + 1] = WatchHash
          THEN /\ ring' = [ring EXCEPT !.hashMap = FnDel(@, WatchHash)]
               /\ ringHist' = [ringHist EXCEPT !.w.pc = "cut"]
          ELSE /\ ring' = ring
               /\ ringHist' = WatchLoop("search")

\* Remove: m.keys = append(m.keys[:idx], m.keys[idx+1:]...), and the loop
\* goes on
RemoveCut ==
    /\ ringHist.w.pc = "cut"
    /\ LET idx == Search(ring.keys, WatchHash, 0, Len(ring.keys))
       IN ring' = [ring EXCEPT !.keys = SubSeq(@, 1, idx) \o SubSeq(@, idx + 2, Len(@))]
    /\ ringHist' = WatchLoop("search")

\* the lookup handler: rpcAddr := peers.Get(key)
ApiGet(key) ==
    /\ ring' = ring
    /\ ringHist' = [ringHist EXCEPT !.op = "Get", !.arg = key, !.ret = MapGet(ring, key),
                                    !.flip = ~@]

(***************************************************************************)
(* RPCRegistery.  Time is counted in minutes.  A handler is a slot of      *)
(* regProc; the reaper goroutine is the slot after the handlers.  mu is    *)
(* the holder of p.mu, 0 when it is unlocked.  The sections under p.mu are *)
(* one step each after the Lock; the DELETE branch takes no lock and is    *)
(* two steps, one per statement.                                           *)
(***************************************************************************)
\* time.Minute * 5
defaultTimeout == 5

Handlers == 1..NHandlers

Reaper == NHandlers + 1

\* the X-Geerpc-Server header values; <<>> is a missing header
Addrs == Peers \cup {<<>>}

IdleHandler == [pc |-> "idle", op |-> "none", addr |-> <<>>]

NoStep == [op |-> "none", addr |-> <<>>, h |-> 0, status |-> 0, list |-> <<>>,
           time |-> 0, clean |-> TRUE]

NewRPCRegistery ==
    [timeout |-> defaultTimeout,
     peers |-> MapNew(defaultRPCReplice, "nil"),
     timeMap |-> EmptyMap]

RegInit ==
    /\ reg = NewRPCRegistery
    /\ mu = 0
    /\ now = 0
    /\ regProc = [h \in 1..Reaper |-> IdleHandler]
    /\ regHist = [ops |-> 0, last |-> NoStep, prev |-> NoStep, panicked |-> FALSE]

\* what a step leaves in the history: the time of a POST or GET, the
\* handler of a DELETE
Step(op, addr, h, status, list) ==
    [op |-> op, addr |-> addr,
     h |-> IF op \in {"DELETE1", "DELETE"} THEN h ELSE 0,
     status |-> status, list |-> list,
     time |-> IF op \in {"POST", "GET"} /\ status = 200 THEN now ELSE 0,
     clean |-> TRUE]

Record(s) == [regHist EXCEPT !.prev = regHist.last, !.last = s]

RECURSIVE StrLess(_, _)
StrLess(a, b) ==
    IF b = <<>> THEN FALSE
    ELSE IF a = <<>> THEN TRUE
    ELSE IF Head(a) # Head(b) THEN Head(a) < Head(b)
    ELSE StrLess(Tail(a), Tail(b))

\* sort.Strings of the collected addresses
RECURSIVE SortStrings(_)
SortStrings(S) ==
    IF S = {} THEN <<>>
    ELSE LET lo == CHOOSE a \in S : \A b \in S \ {a} : StrLess(a, b)
         IN <<lo>> \o SortStrings(S \ {lo})

\* delete(p.timeMap, addr); p.peers.Remove(addr) for each addr of S
RECURSIVE Expire(_, _)
Expire(r, S) ==
    IF S = {} THEN r
    ELSE LET a == CHOOSE x \in S : TRUE
         IN Expire([r EXCEPT !.timeMap = FnDel(@, a), !.peers = MapRemove(@, a)],
                   S \ {a})

\* p.set(peer)
RegSet(r, peer) ==
    [r EXCEPT !.peers = MapAdd(@, peer), !.timeMap = FnPut(@, peer, now)]

\* a request arrives and its handler starts
Arrive(h, op, addr, pc) ==
    /\ regProc[h].pc = "idle"
    /\ \A g \in Handlers : g < h => regProc[g].pc # "idle"
    /\ regHist.ops < MaxRegOps
    /\ regProc' = [regProc EXCEPT ![h] = [pc |-> pc, op |-> op, addr |-> addr]]

\* ServeHTTP, case "GET"
HttpGet(h) ==
    /\ Arrive(h, "GET", <<>>, "lock")
    /\ regHist' = [regHist EXCEPT !.ops = @ + 1]
    /\ UNCHANGED <<reg, mu, now>>

\* ServeHTTP, case "POST": an empty header is answered 500
HttpPost(h, addr) ==
    /\ IF addr = <<>>
       THEN /\ Arrive(h, "none", <<>>, "idle")
            /\ regHist' = [Record(Step("POST", addr, h, 500, <<>>)) EXCEPT !.ops = @ + 1]
       ELSE /\ Arrive(h, "POST", addr, "lock")
            /\ regHist' = [regHist EXCEPT !.ops = @ + 1]
    /\ UNCHANGED <<reg, mu, now>>

\* ServeHTTP, case "DELETE": an empty header is answered 500
HttpDelete(h, addr) ==
    /\ IF addr = <<>>
       THEN /\ Arrive(h, "none", <<>>, "idle")
            /\ regHist' = [Record(Step("DELETE", addr, h, 500, <<>>)) EXCEPT !.ops = @ + 1]
       ELSE /\ Arrive(h, "DELETE", addr, "del_map")
            /\ regHist' = [regHist EXCEPT !.ops = @ + 1]
    /\ UNCHANGED <<reg, mu, now>>

\* ServeHTTP, default: 405
HttpOther(h) ==
    /\ Arrive(h, "none", <<>>, "idle")
    /\ regHist' = [Record(Step("OTHER", <<>>, h, 405, <<>>)) EXCEPT !.ops = @ + 1]
    /\ UNCHANGED <<reg, mu, now>>

\* PickPeer is called
PickPeerCall(h, key) ==
    /\ Arrive(h, "Pick", key, "lock")
    /\ regHist' = [regHist EXCEPT !.ops = @ + 1]
    /\ UNCHANGED <<reg, mu, now>>

\* p.mu.Lock()
RegLock(h) ==
    /\ regProc[h].pc = "lock"
    /\ mu = 0
    /\ mu' = h
    /\ regProc' = [regProc EXCEPT ![h].pc = "locked"]
    /\ UNCHANGED <<reg, now, regHist>>

\* aliveServers, and the response of the GET branch
AliveServers(h) ==
    /\ regProc[h].pc = "locked" /\ regProc[h].op = "GET"
    /\ LET alive == {a \in DOMAIN reg.timeMap :
                        reg.timeout = 0 \/ reg.timeMap[a] + reg.timeout > now}
       IN /\ reg' = Expire(reg, DOMAIN reg.timeMap \ alive)
          /\ regHist' = Record(Step("GET", <<>>, h, 200, SortStrings(alive)))
    /\ mu' = 0
    /\ regProc' = [regProc EXCEPT ![h] = IdleHandler]
    /\ now' = now

\* mutant: a present server's start is not refreshed
PutServerNoRefresh(h) ==
    /\ regProc[h].pc = "locked" /\ regProc[h].op = "POST"
    /\ reg' = IF regProc[h].addr \notin DOMAIN reg.timeMap
              THEN RegSet(reg, regProc[h].addr)
              ELSE reg
    /\ regHist' = Record(Step("POST", regProc[h].addr, h, 200, <<>>))
    /\ mu' = 0
    /\ regProc' = [regProc EXCEPT ![h] = IdleHandler]
    /\ now' = now

\* putServer, and the response of the POST branch
PutServer(h) ==
    /\ regProc[h].pc = "locked" /\ regProc[h].op = "POST"
    /\ reg' = IF regProc[h].addr \notin DOMAIN reg.timeMap
              THEN RegSet(reg, regProc[h].addr)
              ELSE [reg EXCEPT !.timeMap[regProc[h].addr] = now]
    /\ regHist' = Record(Step("POST", regProc[h].addr, h, 200, <<>>))
    /\ mu' = 0
    /\ regProc' = [regProc EXCEPT ![h] = IdleHandler]
    /\ now' = now

\* mutant: an expired peer is deleted from the table and stays on the ring
PickPeerKeepsRing(h) ==
    /\ regProc[h].pc = "locked" /\ regProc[h].op = "Pick"
    /\ LET rpcAddr == MapGet(reg.peers, regProc[h].addr)
       IN IF rpcAddr = <<>>
          THEN /\ reg' = reg
               /\ regHist' = Record(Step("Pick", regProc[h].addr, h, 200, <<>>))
          ELSE IF rpcAddr \notin DOMAIN reg.timeMap
          THEN /\ reg' = reg
               /\ regHist' = [Record(Step("Pick", regProc[h].addr, h, 500, <<>>))
                                 EXCEPT !.panicked = TRUE]
          ELSE IF reg.timeMap[rpcAddr] + reg.timeout < now
          THEN /\ reg' = [reg EXCEPT !.timeMap = FnDel(@, rpcAddr)]
               /\ regHist' = Record(Step("Pick", regProc[h].addr, h, 200, <<>>))
          ELSE /\ reg' = reg
               /\ regHist' = Record(Step("Pick", regProc[h].addr, h, 200, <<rpcAddr>>))
    /\ mu' = 0
    /\ regProc' = [regProc EXCEPT ![h] = IdleHandler]
    /\ now' = now

\* PickPeer under p.mu; a peer on the ring without a table entry is a nil
\* *time.Time whose Add panics
PickPeer(h) ==
    /\ regProc[h].pc = "locked" /\ regProc[h].op = "Pick"
    /\ LET rpcAddr == MapGet(reg.peers, regProc[h].addr)
       IN IF rpcAddr = <<>>
          THEN /\ reg' = reg
               /\ regHist' = Record(Step("Pick", regProc[h].addr, h, 200, <<>>))
          ELSE IF rpcAddr \notin DOMAIN reg.timeMap
          THEN /\ reg' = reg
               /\ regHist' = [Record(Step("Pick", regProc[h].addr, h, 500, <<>>))
                                 EXCEPT !.panicked = TRUE]
          ELSE IF reg.timeMap[rpcAddr] + reg.timeout < now
          THEN /\ reg' = Expire(reg, {rpcAddr})
               /\ regHist' = Record(Step("Pick", regProc[h].addr, h, 200, <<>>))
          ELSE /\ reg' = reg
               /\ regHist' = Record(Step("Pick", regProc[h].addr, h, 200, <<rpcAddr>>))
    /\ mu' = 0
    /\ regProc' = [regProc EXCEPT ![h] = IdleHandler]
    /\ now' = now

\* delete(p.timeMap, addr) of the DELETE branch, p.mu not taken
DeleteMap(h) ==
    /\ regProc[h].pc = "del_map"
    /\ reg' = [reg EXCEPT !.timeMap = FnDel(@, regProc[h].addr)]
    /\ regProc' = [regProc EXCEPT ![h].pc = "del_ring"]
    /\ regHist' = Record(Step("DELETE1", regProc[h].addr, h, 0, <<>>))
    /\ UNCHANGED <<mu, now>>

\* p.peers.Remove(addr) of the DELETE branch, p.mu not taken
DeleteRing(h) ==
    /\ regProc[h].pc = "del_ring"
    /\ reg' = [reg EXCEPT !.peers = MapRemove(@, regProc[h].addr)]
    /\ regProc' = [regProc EXCEPT ![h] = IdleHandler]
    /\ regHist' = Record([Step("DELETE", regProc[h].addr, h, 200, <<>>)
                             EXCEPT !.clean = regHist.last.op = "DELETE1"
                                              /\ regHist.last.h = h])
    /\ UNCHANGED <<mu, now>>

\* Cleanup: the reaper has received a tick and takes p.mu
CleanupLock ==
    /\ regProc[Reaper].pc = "due"
    /\ mu = 0
    /\ mu' = Reaper
    /\ regProc' = [regProc EXCEPT ![Reaper].pc = "locked"]
    /\ UNCHANGED <<reg, now, regHist>>

\* mutant: the sweep deletes nothing
CleanupKeepsAll ==
    /\ regProc[Reaper].pc = "locked"
    /\ reg' = reg
    /\ regHist' = Record(Step("Cleanup", <<>>, Reaper, 0, <<>>))
    /\ mu' = 0
    /\ regProc' = [regProc EXCEPT ![Reaper] = IdleHandler]
    /\ now' = now

\* Cleanup: the loop over p.timeMap, then Unlock
Cleanup ==
    /\ regProc[Reaper].pc = "locked"
    /\ reg' = Expire(reg, {a \in DOMAIN reg.timeMap : reg.timeMap[a] + reg.timeout < now})
    /\ regHist' = Record(Step("Cleanup", <<>>, Reaper, 0, <<>>))
    /\ mu' = 0
    /\ regProc' = [regProc EXCEPT ![Reaper] = IdleHandler]
    /\ now' = now

\* a minute passes and the reaper's ticker fires; the clock is read under
\* p.mu only, so a minute that passes while p.mu is held is a minute that
\* passed before the Lock
Tick ==
    /\ now < MaxTime
    /\ mu = 0
    /\ now' = now + 1
    /\ regProc' = [regProc EXCEPT ![Reaper].pc = "due"]
    /\ UNCHANGED <<reg, mu, regHist>>

(***************************************************************************)
(* The RPC client of one connection.  A caller is a slot of cliProc that   *)
(* is inside Go; the receiver goroutine is cli.recv.  cli.sending is the   *)
(* holder of client.sending, 0 when unlocked; the sections under client.mu *)
(* do not block and are part of the step that takes them.  wire is the     *)
(* sequence of header Seqs the connection has carried to the server.       *)
(***************************************************************************)
Callers == 1..NCallers

IdleCaller == [pc |-> "idle", op |-> "none", seq |-> 0, refused |-> FALSE, late |-> FALSE]

\* a Call as Go builds it; reply is the Seq of the response body read into Reply
\* shared: Done is the caller's channel that its other Calls use as well
NoCall == [error |-> "", dones |-> 0, reply |-> 0, shared |-> FALSE]

NoCallReturn == [kind |-> "none", seq |-> 0, error |-> ""]

\* the holder of client.sending while terminateCalls runs
Receiver == NCallers + 1

\* newClientCodec; chan is the number of Calls that lie in the caller's
\* shared done channel, sig the Call the receiver is sending on it, resume
\* where the receiver goes on after that send, left the pending Calls the
\* loop of terminateCalls has not reached
NewClientCodec ==
    [seq |-> 1, pending |-> {}, closing |-> FALSE, shutdown |-> FALSE,
     sending |-> 0, cc |-> "open", recv |-> "reading", calls |-> EmptyMap,
     chan |-> 0, sig |-> 0, resume |-> "", left |-> {}]

CliInit ==
    /\ cli = NewClientCodec
    /\ wire = <<>>
    /\ cliProc = [c \in Callers |-> IdleCaller]
    /\ cliHist = [ops |-> 0, refused |-> 0, responded |-> {}, closeErr |-> "",
                  cancelled |-> {}, terminated |-> {}, lateRegistered |-> FALSE,
                  ret |-> NoCallReturn]

\* call.Error = err; call.done()
Fail(calls, seqs, err) ==
    [s \in DOMAIN calls |->
        IF s \in seqs THEN [calls[s] EXCEPT !.error = err, !.dones = @ + 1] ELSE calls[s]]

\* call.done() can send without waiting: the shared channel has room
Room(cl) == cl.chan < DoneCap

\* call.done() by the receiver inside recieve: the send on a Done channel of
\* the Call's own cannot block, the send on a full shared channel waits
Signal(cl, s) ==
    IF ~cl.calls[s].shared THEN [cl EXCEPT !.calls[s].dones = @ + 1]
    ELSE IF Room(cl) THEN [cl EXCEPT !.calls[s].dones = @ + 1, !.chan = @ + 1]
    ELSE [cl EXCEPT !.sig = s, !.resume = cl.recv, !.recv = "signal"]

\* call.done() by a caller inside send, which holds client.sending until
\* done returns
CallerSignal(cl, s) ==
    IF ~cl.calls[s].shared THEN [cl EXCEPT !.calls[s].dones = @ + 1, !.sending = 0]
    ELSE IF Room(cl)
    THEN [cl EXCEPT !.calls[s].dones = @ + 1, !.chan = @ + 1, !.sending = 0]
    ELSE cl

\* mutant: removeCall returns the call and leaves it in the table
RemoveCallKeeps(cl, seq) == cl

\* removeCall: delete(client.pending, seq)
RemoveCall(cl, seq) == [cl EXCEPT !.pending = @ \ {seq}]

\* a caller enters Go or Call; late: the receiver had finished terminateCalls
Enter(c, op) ==
    /\ cliProc[c].pc = "idle"
    /\ \A d \in Callers : d < c => cliProc[d].pc # "idle"
    /\ cliHist.ops < MaxSends
    /\ cliProc' = [cliProc EXCEPT ![c] = [IdleCaller EXCEPT !.pc = "send", !.op = op,
                                               !.late = cli.recv = "done"]]
    /\ cliHist' = [cliHist EXCEPT !.ops = @ + 1]
    /\ UNCHANGED <<cli, wire>>

\* Go: the Call is built and send begins
GoCall(c) == Enter(c, "Go")

\* Call: Go with a done channel of capacity 1, the select comes after send
CallCall(c) == Enter(c, "Call")

\* Go with the buffered done channel the caller passes to all its calls
GoShared(c) == Enter(c, "GoShared")

\* where a caller is once send has returned: Go returns the Call, Call selects
AfterSend(p) ==
    IF p.op = "Call" THEN [p EXCEPT !.pc = "select"] ELSE IdleCaller

\* mutant: send goes on without client.sending
SendNoLock(c) ==
    /\ cliProc[c].pc = "send"
    /\ cliProc' = [cliProc EXCEPT ![c].pc = "register"]
    /\ UNCHANGED <<cli, wire, cliHist>>

\* send: client.sending.Lock()
SendLock(c) ==
    /\ cliProc[c].pc = "send"
    /\ cli.sending = 0
    /\ cli' = [cli EXCEPT !.sending = c]
    /\ cliProc' = [cliProc EXCEPT ![c].pc = "register"]
    /\ UNCHANGED <<wire, cliHist>>

\* send after registerCall refused: call.done() on the Done channel of the
\* Call, then client.sending is unlocked
Refuse(cl, op) ==
    IF op # "GoShared" THEN [cl EXCEPT !.sending = 0]
    ELSE IF Room(cl) THEN [cl EXCEPT !.chan = @ + 1, !.sending = 0]
    ELSE cl

\* mutant: registerCall looks at closing only
RegisterCallIgnoresShutdown(c) ==
    /\ cliProc[c].pc = "register"
    /\ IF cli.closing
       THEN /\ cli' = Refuse(cli, cliProc[c].op)
            /\ cliProc' = [cliProc EXCEPT ![c] =
                              IF cli'.sending = c THEN [@ EXCEPT !.refused = TRUE, !.pc = "signal"]
                              ELSE AfterSend([@ EXCEPT !.refused = TRUE])]
            /\ cliHist' = [cliHist EXCEPT !.refused = @ + 1]
       ELSE /\ cli' = [cli EXCEPT !.pending = @ \cup {cli.seq},
                                  !.calls = FnPut(@, cli.seq,
                                     [NoCall EXCEPT !.shared = cliProc[c].op = "GoShared"]),
                                  !.seq = @ + 1]
            /\ cliProc' = [cliProc EXCEPT ![c].pc = "write", ![c].seq = cli.seq]
            /\ cliHist' = [cliHist EXCEPT !.lateRegistered = @ \/ cliProc[c].late]
    /\ wire' = wire

\* send: registerCall, and the return of send when it refuses the call
\* (call.Error = ErrShutdown; call.done())
RegisterCall(c) ==
    /\ cliProc[c].pc = "register"
    /\ IF cli.closing \/ cli.shutdown
       THEN /\ cli' = Refuse(cli, cliProc[c].op)
            /\ cliProc' = [cliProc EXCEPT ![c] =
                              IF cli'.sending = c THEN [@ EXCEPT !.refused = TRUE, !.pc = "signal"]
                              ELSE AfterSend([@ EXCEPT !.refused = TRUE])]
            /\ cliHist' = [cliHist EXCEPT !.refused = @ + 1]
       ELSE /\ cli' = [cli EXCEPT !.pending = @ \cup {cli.seq},
                                  !.calls = FnPut(@, cli.seq,
                                     [NoCall EXCEPT !.shared = cliProc[c].op = "GoShared"]),
                                  !.seq = @ + 1]
            /\ cliProc' = [cliProc EXCEPT ![c].pc = "write", ![c].seq = cli.seq]
            /\ cliHist' = [cliHist EXCEPT !.lateRegistered = @ \/ cliProc[c].late]
    /\ wire' = wire

\* what send does when cc.Write returned an error
WriteFailed(cl, seq) ==
    IF seq \in cl.pending
    THEN CallerSignal([RemoveCall(cl, seq) EXCEPT !.calls[seq].error = "write"], seq)
    ELSE [RemoveCall(cl, seq) EXCEPT !.sending = 0]

\* send: the header is filled, cc.Write runs, send returns.  A Write on a
\* healthy transport carries the record; the transport may fail under it,
\* with the header carried or not, and stays failed
Write(c) ==
    /\ cliProc[c].pc = "write"
    /\ \/ /\ cli.cc = "open"
          /\ wire' = Append(wire, cliProc[c].seq)
          /\ cli' = [cli EXCEPT !.sending = 0]
       \/ /\ cli.cc = "open"
          /\ wire' \in {wire, Append(wire, cliProc[c].seq)}
          /\ cli' = [WriteFailed(cli, cliProc[c].seq) EXCEPT !.cc = "broken"]
       \/ /\ cli.cc # "open"
          /\ wire' = wire
          /\ cli' = WriteFailed(cli, cliProc[c].seq)
    /\ cliProc' = [cliProc EXCEPT ![c] =
                      IF cli'.sending = c THEN [@ EXCEPT !.pc = "signal"] ELSE AfterSend(@)]
    /\ cliHist' = cliHist

\* send: the call.done() that waited for room on the shared channel returns
SendDone(c) ==
    /\ cliProc[c].pc = "signal"
    /\ Room(cli)
    /\ cli' = [cli EXCEPT !.chan = @ + 1, !.sending = 0,
                          !.calls = IF cliProc[c].refused THEN @
                                    ELSE [@ EXCEPT ![cliProc[c].seq].dones = @ + 1]]
    /\ cliProc' = [cliProc EXCEPT ![c] = AfterSend(@)]
    /\ UNCHANGED <<wire, cliHist>>

\* the caller receives one Call from its shared done channel
Drain ==
    /\ cli.chan > 0
    /\ cli' = [cli EXCEPT !.chan = @ - 1]
    /\ UNCHANGED <<wire, cliProc, cliHist>>

\* Call: case call := <-call.Done
CallReturn(c) ==
    /\ cliProc[c].pc = "select"
    /\ \/ cliProc[c].refused
       \/ ~cliProc[c].refused /\ cli.calls[cliProc[c].seq].dones > 0
    /\ cliHist' = [cliHist EXCEPT !.ret =
          [kind |-> "done", seq |-> cliProc[c].seq,
           error |-> IF cliProc[c].refused THEN "connection is shut down"
                     ELSE cli.calls[cliProc[c].seq].error]]
    /\ cliProc' = [cliProc EXCEPT ![c] = IdleCaller]
    /\ UNCHANGED <<cli, wire>>

\* mutant: a cancelled Call returns and leaves its Call in the table
CallCancelKeeps(c) ==
    /\ cliProc[c].pc = "select"
    /\ cli.recv # "stuck"
    /\ cliHist' = [cliHist EXCEPT
          !.cancelled = @ \cup (IF cliProc[c].refused THEN {} ELSE {cliProc[c].seq}),
          !.ret = [kind |-> "cancel", seq |-> cliProc[c].seq,
                   error |-> "rpc client: call failed"]]
    /\ cliProc' = [cliProc EXCEPT ![c] = IdleCaller]
    /\ UNCHANGED <<cli, wire>>

\* Call: case <-ctx.Done(); a refused Call has Seq 0, which is in no table
CallCancel(c) ==
    /\ cliProc[c].pc = "select"
    /\ cli.recv # "stuck"
    /\ cli' = RemoveCall(cli, cliProc[c].seq)
    /\ cliHist' = [cliHist EXCEPT
          !.cancelled = @ \cup (IF cliProc[c].refused THEN {} ELSE {cliProc[c].seq}),
          !.ret = [kind |-> "cancel", seq |-> cliProc[c].seq,
                   error |-> "rpc client: call failed"]]
    /\ cliProc' = [cliProc EXCEPT ![c] = IdleCaller]
    /\ wire' = wire

\* Close, under client.mu
ClientClose ==
    /\ cli.recv # "stuck"
    /\ IF cli.closing
       THEN /\ cli' = cli
            /\ cliHist' = [cliHist EXCEPT !.closeErr = "connection is shut down"]
       ELSE /\ cli' = [cli EXCEPT !.closing = TRUE,
                                  !.cc = IF @ = "open" THEN "closed" ELSE @]
            /\ cliHist' = [cliHist EXCEPT !.closeErr = ""]
    /\ UNCHANGED <<wire, cliProc>>

\* the kinds of response the server's side of the connection delivers: a
\* reply, a Header.Error, and a record whose body cannot be read
ResponseKinds == {"reply", "error", "badbody"}

\* recieve: the response to a request the server has read arrives
Receive(s, kind) ==
    /\ cli.recv = "reading"
    /\ cli.cc = "open"
    /\ s \in SeqRange(wire) \ cliHist.responded
    /\ LET found == s \in cli.pending
           cl == RemoveCall(cli, s)
           stop == [cl EXCEPT !.recv = "terminate", !.cc = "broken"]
       IN IF ~found
          THEN cli' = IF kind = "badbody" THEN stop ELSE cl
          ELSE IF kind = "error"
          THEN cli' = Signal([cl EXCEPT !.calls[s].error = "server"], s)
          ELSE IF kind = "reply"
          THEN cli' = Signal([cl EXCEPT !.calls[s].reply = s], s)
          ELSE cli' = Signal([stop EXCEPT !.calls[s].error = "reading body"], s)
    /\ cliHist' = [cliHist EXCEPT !.responded = @ \cup {s}]
    /\ UNCHANGED <<wire, cliProc>>

\* recieve: a read fails, on a closed or failed transport or as it fails now
ReadFail ==
    /\ cli.recv = "reading"
    /\ cli' = [cli EXCEPT !.recv = "terminate",
                          !.cc = IF @ = "open" THEN "broken" ELSE @]
    /\ UNCHANGED <<wire, cliProc, cliHist>>

\* recieve: the call.done() that waited for room on the shared channel
\* returns and the loop goes on
ReceiveDone ==
    /\ cli.recv = "signal"
    /\ Room(cli)
    /\ cli' = [cli EXCEPT !.calls[cli.sig].dones = @ + 1, !.chan = @ + 1,
                          !.recv = cli.resume, !.sig = 0, !.resume = ""]
    /\ UNCHANGED <<wire, cliProc, cliHist>>

\* the loop of terminateCalls over the Calls of left, in the order the map
\* yields them: it ends and both mutexes are unlocked, or it waits in the
\* call.done() of Call b on the full shared channel with both mutexes held
Sweep(cl, left) ==
    LET sh == {s \in left : cl.calls[s].shared}
        room == DoneCap - cl.chan
    IN IF Cardinality(sh) <= room
       THEN {[cl EXCEPT !.calls = Fail(@, left, "read"), !.chan = @ + Cardinality(sh),
                        !.recv = "done", !.sending = 0, !.left = {}]}
       ELSE {[cl EXCEPT !.calls = [Fail(@, D, "read") EXCEPT ![b].error = "read"],
                        !.chan = DoneCap, !.recv = "stuck", !.sending = Receiver,
                        !.sig = b, !.left = left \ (D \cup {b})] :
                <<D, b>> \in {x \in (SUBSET left) \X sh :
                                 x[2] \notin x[1] /\ Cardinality(x[1] \cap sh) = room}}

\* terminateCalls
TerminateCalls ==
    /\ cli.recv = "terminate"
    /\ cli.sending = 0
    /\ cli' \in Sweep([cli EXCEPT !.shutdown = TRUE], cli.pending)
    /\ cliHist' = [cliHist EXCEPT !.terminated = cli.pending]
    /\ UNCHANGED <<wire, cliProc>>

\* terminateCalls: the call.done() that waited for room on the shared
\* channel returns and the loop goes on
TerminateDone ==
    /\ cli.recv = "stuck"
    /\ Room(cli)
    /\ cli' \in Sweep([cli EXCEPT !.calls[cli.sig].dones = @ + 1, !.chan = @ + 1,
                                  !.sig = 0], cli.left)
    /\ UNCHANGED <<wire, cliProc, cliHist>>

(***************************************************************************)
(* The RPC server of one connection.  srv is ServeConn/ServeCodec: state   *)
(* is "accept" before the Option is read, "loop" inside the request loop,  *)
(* "wait" at wg.Wait and "closed" after the connection is closed.  req[i]  *)
(* is the i-th request read; inner and outer are the positions of the      *)
(* goroutine started by handleRequest and of handleRequest itself.  called *)
(* and sent are unbuffered: a send and its receive are one step.  The      *)
(* section of sendResponse under sending does not block and is one step.   *)
(* A Go string is a fixed text (s) or the bytes of a cache value (b).      *)
(***************************************************************************)
MagicNumber == 3927900

Text(s) == [s |-> s, b |-> <<>>]

Bytes(b) == [s |-> "", b |-> b]

\* the body written with an error header
invalidRequest == [s |-> "struct{}", b |-> <<>>]

\* the codec types with a constructor in codec.NewCodecFuncMap
NewCodecFuncMap == {"GobType"}

\* the Option records a client can open the connection with; the first one
\* stands for bytes that do not decode as an Option
Options ==
    {[decodes |-> FALSE, MagicNumber |-> 0, CodecType |-> "", HandleTimeout |-> 0]}
        \cup [decodes : {TRUE}, MagicNumber : {MagicNumber, 0},
              CodecType : {"GobType", "JsonType"}, HandleTimeout : {0, 1}]

Methods == {"Group.Get", "Group.Insert", "Group.Delete", "Group.Foo"}

\* errors.New("rpc server: unknown method " + req.method)
UnknownMethod(method) ==
    IF method = "Group.Foo" THEN "rpc server: unknown method Group.Foo"
    ELSE "rpc server: unknown method"

\* fmt.Sprintf("rpc server: request handle timeout, expect within %s", timeout)
HandleTimeoutError == "rpc server: request handle timeout, expect within 1"

SrvInit ==
    /\ srv = [state |-> "accept", opt |-> CHOOSE o \in Options : ~o.decodes,
              entered |-> FALSE, stop |-> "none", written |-> <<>>]
    /\ req = <<>>

\* the request a read produces, before it is dispatched
NewRequest(method, seq, key, value) ==
    [h |-> [ServiceMethod |-> method, Seq |-> seq, Error |-> ""],
     method |-> method, key |-> key, value |-> value, replyv |-> Text(""),
     err |-> "", gerr |-> "", present |-> FALSE, cachedAfter |-> FALSE,
     disp |-> FALSE, inner |-> "none", outer |-> "none"]

\* cc.Write(h, body) under sending: one more response on the connection
SendResponse(s, h, body, by) ==
    [s EXCEPT !.written = Append(@, [seq |-> h.Seq, error |-> h.Error,
                                      body |-> body, by |-> by])]

\* mutant: the MagicNumber of the Option is not compared
ServeConnAnyMagic(opt) ==
    /\ srv.state = "accept"
    /\ srv' = IF \/ ~opt.decodes
                 \/ opt.CodecType \notin NewCodecFuncMap
              THEN [srv EXCEPT !.state = "closed", !.opt = opt]
              ELSE [srv EXCEPT !.state = "loop", !.opt = opt, !.entered = TRUE]
    /\ req' = req
    /\ lru' = lru

\* ServeConn: decode the Option, check it, and serve or close
ServeConn(opt) ==
    /\ srv.state = "accept"
    /\ srv' = IF \/ ~opt.decodes
                 \/ opt.MagicNumber # MagicNumber
                 \/ opt.CodecType \notin NewCodecFuncMap
              THEN [srv EXCEPT !.state = "closed", !.opt = opt]
              ELSE [srv EXCEPT !.state = "loop", !.opt = opt, !.entered = TRUE]
    /\ req' = req
    /\ lru' = lru

\* readRequest fails in readRequestHeader: req == nil, the loop ends
ReadHeaderFail ==
    /\ srv.state = "loop"
    /\ srv' = [srv EXCEPT !.state = "wait", !.stop = "header"]
    /\ req' = req
    /\ lru' = lru

\* one turn of the loop of ServeCodec that reads a header: an unknown method
\* returns (nil, err) and ends the loop; a body that cannot be read is
\* answered at once; any other request gets its handleRequest goroutine
ReadRequest(method, key, value, bodyOk) ==
    /\ srv.state = "loop"
    /\ Len(req) < MaxConnReqs
    /\ LET r == NewRequest(method, Len(req) + 1, key, value) IN
       IF method \notin {"Group.Get", "Group.Insert", "Group.Delete"}
       THEN /\ srv' = [srv EXCEPT !.state = "wait", !.stop = "method"]
            /\ req' = Append(req, r)
       ELSE IF ~bodyOk
       THEN LET h == [r.h EXCEPT !.Error = "read body failed"] IN
            /\ srv' = SendResponse(srv, h, invalidRequest, "loop")
            /\ req' = Append(req, [r EXCEPT !.h = h])
       ELSE /\ srv' = srv
            /\ req' = Append(req, [r EXCEPT !.disp = TRUE, !.inner = "switch",
                                            !.outer = IF srv.opt.HandleTimeout = 0
                                                      THEN "called" ELSE "select"])
    /\ lru' = lru

\* server.gee.Get(key): a hit, or the origin loader's result, cached on success
GeeGet(c, key, res) ==
    LET r == CacheGet(c, key) IN
    IF r.ok THEN [c |-> r.c, value |-> r.value, err |-> ""]
    ELSE IF res.err # "" THEN [c |-> r.c, value |-> NoView, err |-> res.err]
    ELSE LET v == ByteView(CloneBytes(ByteSlice(res.val))) IN
         [c |-> CacheAdd(r.c, key, v), value |-> v, err |-> ""]

\* the switch of the handler goroutine, up to its send on called.  In the
\* Group.Get case err is declared anew by :=, so the goroutine's err stays
\* nil; gerr is the error the Group returned
Operate(i, res) ==
    /\ i \in DOMAIN req
    /\ req[i].inner = "switch"
    /\ LET q == req[i] IN
       CASE q.method = "Group.Get" ->
              LET g == GeeGet(lru, q.key, res) IN
              /\ q.key \in DOMAIN lru.cache => res = CHOOSE x \in Results : TRUE
              /\ lru' = g.c
              /\ req' = [req EXCEPT ![i].inner = "called", ![i].gerr = g.err,
                                    ![i].present = q.key \in DOMAIN lru.cache,
                                    ![i].cachedAfter = q.key \in DOMAIN g.c.cache,
                                    ![i].replyv = IF g.err = "" THEN Bytes(ByteSlice(g.value))
                                                  ELSE @]
         [] q.method = "Group.Insert" ->
              /\ res = CHOOSE x \in Results : TRUE
              /\ lru' = CacheAdd(lru, q.key, ByteView(q.value))
              /\ req' = [req EXCEPT ![i].inner = "called",
                                    ![i].present = q.key \in DOMAIN lru.cache,
                                    ![i].cachedAfter = q.key \in DOMAIN lru'.cache,
                                    ![i].replyv = Text("Insert successful")]
         [] q.method = "Group.Delete" ->
              LET d == CacheDelete(lru, q.key) IN
              /\ res = CHOOSE x \in Results : TRUE
              /\ lru' = d.c
              /\ req' = [req EXCEPT ![i].inner = "called", ![i].gerr = d.err,
                                    ![i].err = d.err,
                                    ![i].present = q.key \in DOMAIN lru.cache,
                                    ![i].cachedAfter = q.key \in DOMAIN d.c.cache,
                                    ![i].replyv = IF d.err = "" THEN Text("Delete successful")
                                                  ELSE Text("Delete failed")]
    /\ srv' = srv

\* mutant: called has a buffer, the goroutine's send does not wait for
\* handleRequest to receive
CalledBuffered(i) ==
    /\ i \in DOMAIN req
    /\ req[i].inner = "called"
    /\ req' = [req EXCEPT ![i].inner = "send",
                          ![i].outer = IF @ \in {"called", "select"} THEN "sent" ELSE @]
    /\ srv' = srv
    /\ lru' = lru

\* called <- struct{}{} meets <-called in handleRequest
Called(i) ==
    /\ i \in DOMAIN req
    /\ req[i].inner = "called"
    /\ req[i].outer \in {"called", "select"}
    /\ req' = [req EXCEPT ![i].inner = "send", ![i].outer = "sent"]
    /\ srv' = srv
    /\ lru' = lru

\* the goroutine's sendResponse: the error of err, or the reply
HandlerSend(i) ==
    /\ i \in DOMAIN req
    /\ req[i].inner = "send"
    /\ LET q == req[i]
           h == IF q.err # "" THEN [q.h EXCEPT !.Error = q.err] ELSE q.h
       IN /\ srv' = SendResponse(srv, h, IF q.err # "" THEN invalidRequest ELSE q.replyv,
                                 "handler")
          /\ req' = [req EXCEPT ![i].h = h, ![i].inner = "sent"]
    /\ lru' = lru

\* sent <- struct{}{} meets <-sent; both goroutines return, wg.Done runs
Sent(i) ==
    /\ i \in DOMAIN req
    /\ req[i].inner = "sent"
    /\ req[i].outer = "sent"
    /\ req' = [req EXCEPT ![i].inner = "done", ![i].outer = "done"]
    /\ srv' = srv
    /\ lru' = lru

\* case <-time.After(timeout): the timeout response, then wg.Done
Timeout(i) ==
    /\ i \in DOMAIN req
    /\ req[i].outer = "select"
    /\ LET h == [req[i].h EXCEPT !.Error = HandleTimeoutError] IN
       /\ srv' = SendResponse(srv, h, invalidRequest, "timeout")
       /\ req' = [req EXCEPT ![i].h = h, ![i].outer = "done"]
    /\ lru' = lru

\* wg.Wait returns when every handleRequest has returned; cc.Close
ServeCodecReturn ==
    /\ srv.state = "wait"
    /\ \A i \in DOMAIN req : req[i].disp => req[i].outer = "done"
    /\ srv' = [srv EXCEPT !.state = "closed"]
    /\ req' = req
    /\ lru' = lru

(***************************************************************************)
(* The Snowflake generator.  clk is the reading of currentTimestamp minus  *)
(* epoch, in milliseconds; it does not go back.  sf.lastTimestamp is kept  *)
(* on the same scale, so the 0 it is constructed with, which is below      *)
(* every reading of the clock, is BeforeEpoch.  Generate is one step, or   *)
(* two when the sequence wrapped and it has to wait for the clock.  Ghost: *)
(* id is the last ID returned (NoID before the first), flip changes at     *)
(* every return, waited tells that the last return came out of the wait.   *)
(***************************************************************************)
nodeBits == 10

sequenceBits == 12

maxNodeID == 2 ^ nodeBits - 1

maxSequence == 2 ^ sequenceBits - 1

nodeShift == sequenceBits

timestampShift == sequenceBits + nodeBits

BeforeEpoch == -1

NoID == -1

\* x | y and x & y on non-negative integers
RECURSIVE BitOr(_, _)
BitOr(x, y) ==
    IF x = 0 THEN y
    ELSE IF y = 0 THEN x
    ELSE (IF x % 2 = 1 \/ y % 2 = 1 THEN 1 ELSE 0) + 2 * BitOr(x \div 2, y \div 2)

RECURSIVE BitAnd(_, _)
BitAnd(x, y) ==
    IF x = 0 \/ y = 0 THEN 0
    ELSE (IF x % 2 = 1 /\ y % 2 = 1 THEN 1 ELSE 0) + 2 * BitAnd(x \div 2, y \div 2)

\* the FNV-1a offset basis 0x811C9DC5 and prime 0x01000193
offset32 == <<33052, 40389>>

prime32 == <<256, 403>>

\* x * y modulo 2^32
Mul32(x, y) ==
    LET low == x[2] * y[2] IN
    <<(x[1] * y[2] + x[2] * y[1] + low \div 65536) % 65536, low % 65536>>

\* fnv.New32a, Write, Sum32
RECURSIVE Fnv32a(_, _)
Fnv32a(hash, data) ==
    IF data = <<>> THEN hash
    ELSE Fnv32a(Mul32(Xor32(hash, <<0, Head(data)>>), prime32), Tail(data))

\* int64(x) % n for a uint32 x and 0 < n <= 2^15
Mod32(x, n) == ((x[1] % n) * (65536 % n) + x[2]) % n

\* the ip and port strings of the nodes: "1", "10" and "8", "9"
Ips == {<<49>>, <<49, 48>>}

Ports == {<<56>>, <<57>>}

\* fmt.Sprintf("%s:%s", ip, port)
Addr(ip, port) == ip \o <<58>> \o port

getNodeID(ip, port) == Mod32(Fnv32a(offset32, Addr(ip, port)), maxNodeID)

NewSnowflake(nodeID) ==
    [lastTimestamp |-> BeforeEpoch, nodeID |-> nodeID, sequence |-> 0,
     err |-> nodeID < 0 \/ nodeID > maxNodeID,
     pc |-> "idle", id |-> NoID, flip |-> FALSE, waited |-> FALSE,
     ip |-> <<>>, port |-> <<>>]

\* the generator of the node at (ip, port), as GenerateID builds it
NodeSnowflake(ip, port) ==
    [NewSnowflake(getNodeID(ip, port)) EXCEPT !.ip = ip, !.port = port]

SnowIdle == sf = NewSnowflake(0) /\ clk = 0

SnowInit == (\E ip \in Ips, port \in Ports : sf = NodeSnowflake(ip, port)) /\ clk = 0

\* the ID assembled from the generator's fields
MakeID(s) ==
    BitOr(BitOr(s.lastTimestamp * 2 ^ timestampShift, s.nodeID * 2 ^ nodeShift),
          s.sequence)

\* Generate returns: lastTimestamp is set and the ID assembled
Return(s, timestamp, waited) ==
    LET t == [s EXCEPT !.lastTimestamp = timestamp] IN
    [t EXCEPT !.pc = "idle", !.id = MakeID(t), !.flip = ~s.flip, !.waited = waited]

\* mutant: a sequence that wrapped to 0 is used in the same millisecond
GenerateNoWait ==
    /\ sf.pc = "idle"
    /\ LET timestamp == clk IN
       sf' = IF timestamp = sf.lastTimestamp
             THEN Return([sf EXCEPT !.sequence = BitAnd(sf.sequence + 1, maxSequence)],
                         timestamp, FALSE)
             ELSE Return([sf EXCEPT !.sequence = 0], timestamp, FALSE)
    /\ clk' = clk

\* Generate up to its return, or up to the wait for the next millisecond
Generate ==
    /\ sf.pc = "idle"
    /\ LET timestamp == clk IN
       sf' = IF timestamp = sf.lastTimestamp
             THEN LET s == [sf EXCEPT !.sequence = BitAnd(sf.sequence + 1, maxSequence)]
                  IN IF s.sequence = 0 THEN [s EXCEPT !.pc = "spin"]
                     ELSE Return(s, timestamp, FALSE)
             ELSE Return([sf EXCEPT !.sequence = 0], timestamp, FALSE)
    /\ clk' = clk

\* the turn of the wait loop that reads a later millisecond, and the return
Spin ==
    /\ sf.pc = "spin"
    /\ clk > sf.lastTimestamp
    /\ sf' = Return(sf, clk, TRUE)
    /\ clk' = clk

\* a millisecond passes
Millisecond ==
    /\ clk < MaxMillis
    /\ clk' = clk + 1
    /\ sf' = sf

(***************************************************************************)
(* Specifications.                                                         *)
(***************************************************************************)
\* the cache left as constructed, under the specifications of the other parts
CacheIdle == lru = CacheNew(0) /\ out = NoOut /\ SfInit

\* the ring, the registry and the client left as constructed
NetIdle ==
    /\ ring = MapNew(1, "nil")
    /\ ringHist = [P |-> {}, ops |-> 0, op |-> "none", arg |-> <<>>, ret |-> <<>>]
    /\ RegInit
    /\ CliInit
    /\ SrvInit
    /\ SnowIdle

InitLRU == LruInit /\ out = NoOut /\ SfInit /\ NetIdle

NextLRU ==
    \/ \E key \in LruKeys, value \in Values : LruAdd(key, value) /\ UNCHANGED <<groupVars, netVars>>
    \/ \E key \in LruKeys : LruGet(key) /\ UNCHANGED <<groupVars, netVars>>
    \/ \E key \in LruKeys : LruDelete(key) /\ UNCHANGED <<groupVars, netVars>>
    \/ LruRemoveOldest /\ UNCHANGED <<groupVars, netVars>>

SpecLRU == InitLRU /\ [][NextLRU]_vars

InitSF == SfInit /\ lru = CacheNew(0) /\ out = NoOut /\ NetIdle

NextSF ==
    \/ \E p \in Procs, key \in Keys : DoCall(p, key) /\ UNCHANGED <<lru, out, netVars>>
    \/ \E p \in Procs : DoEnter(p) /\ UNCHANGED <<lru, out, netVars>>
    \/ \E p \in Procs : WaitReturn(p) /\ UNCHANGED <<lru, out, netVars>>
    \/ \E p \in Procs : ThunkStart(p) /\ UNCHANGED <<lru, out, netVars>>
    \/ \E p \in Procs : ThunkReturn(p) /\ UNCHANGED <<lru, out, netVars>>
    \/ \E p \in Procs : WgDone(p) /\ UNCHANGED <<lru, out, netVars>>
    \/ \E p \in Procs : DoExit(p) /\ UNCHANGED <<lru, out, netVars>>

SpecSF == InitSF /\ [][NextSF]_vars

\* the capacities a Group is tried with
GroupCaps == {0, MaxBytes - 2, MaxBytes}

InitGroup == (\E cap \in GroupCaps : lru = CacheNew(cap)) /\ SfInit /\ out = NoOut /\ NetIdle

NextGroup ==
    \/ \E p \in Servers, key \in Keys : GetStart(p, key) /\ UNCHANGED <<out, netVars>>
    \/ \E p \in Servers : DoEnter(p) /\ UNCHANGED <<lru, out, netVars>>
    \/ \E p \in Servers : WaitReturn(p) /\ UNCHANGED <<lru, out, netVars>>
    \/ \E p \in Servers : ThunkStart(p) /\ UNCHANGED <<lru, out, netVars>>
    \/ \E p \in Servers : LoaderReturn(p) /\ UNCHANGED <<out, netVars>>
    \/ \E p \in Servers : Populate(p) /\ UNCHANGED <<out, netVars>>
    \/ \E p \in Servers : WgDone(p) /\ UNCHANGED <<lru, out, netVars>>
    \/ \E p \in Servers : DoExit(p) /\ UNCHANGED <<lru, out, netVars>>
    \/ \E p \in Servers, key \in Keys, value \in Values :
          GroupInsert(p, key, value) /\ UNCHANGED <<out, netVars>>
    \/ \E p \in Servers, key \in Keys : GroupDelete(p, key) /\ UNCHANGED <<out, netVars>>

SpecGroup == InitGroup /\ [][NextGroup]_vars

\* the ring left as constructed
RingIdle ==
    /\ ring = MapNew(1, "nil")
    /\ ringHist = [P |-> {}, ops |-> 0, op |-> "none", arg |-> <<>>, ret |-> <<>>]

InitRing == RingInit /\ CacheIdle /\ RegInit /\ CliInit /\ SrvInit /\ SnowIdle

NextRing ==
    \/ \E peer \in Peers : RingAdd(peer) /\ UNCHANGED <<cacheVars, regVars, cliVars, srvVars, idVars>>
    \/ \E peer \in Peers : RingRemove(peer) /\ UNCHANGED <<cacheVars, regVars, cliVars, srvVars, idVars>>
    \/ \E key \in Keys : RingGet(key) /\ UNCHANGED <<cacheVars, regVars, cliVars, srvVars, idVars>>
    \/ \E type \in {"PUT", "DELETE"}, value \in Peers :
          WatchEvent(type, value) /\ UNCHANGED <<cacheVars, regVars, cliVars, srvVars, idVars>>

SpecRing == InitRing /\ [][NextRing]_vars

InitWatch == WatchInit /\ CacheIdle /\ RegInit /\ CliInit /\ SrvInit /\ SnowIdle

NextWatch ==
    \/ \E type \in {"PUT", "DELETE"}, value \in Peers :
          WatchBegin(type, value) /\ UNCHANGED <<cacheVars, regVars, cliVars, srvVars, idVars>>
    \/ AddAppend /\ UNCHANGED <<cacheVars, regVars, cliVars, srvVars, idVars>>
    \/ AddMap /\ UNCHANGED <<cacheVars, regVars, cliVars, srvVars, idVars>>
    \/ AddSort /\ UNCHANGED <<cacheVars, regVars, cliVars, srvVars, idVars>>
    \/ RemoveDelete /\ UNCHANGED <<cacheVars, regVars, cliVars, srvVars, idVars>>
    \/ RemoveCut /\ UNCHANGED <<cacheVars, regVars, cliVars, srvVars, idVars>>
    \/ \E key \in Keys : ApiGet(key) /\ UNCHANGED <<cacheVars, regVars, cliVars, srvVars, idVars>>

SpecWatch == InitWatch /\ [][NextWatch]_vars

InitRegistry == RegInit /\ CacheIdle /\ RingIdle /\ CliInit /\ SrvInit /\ SnowIdle

NextRegistry ==
    \/ \E h \in Handlers : HttpGet(h) /\ UNCHANGED <<cacheVars, ringVars, cliVars, srvVars, idVars>>
    \/ \E h \in Handlers, addr \in Addrs : HttpPost(h, addr) /\ UNCHANGED <<cacheVars, ringVars, cliVars, srvVars, idVars>>
    \/ \E h \in Handlers, addr \in Addrs : HttpDelete(h, addr) /\ UNCHANGED <<cacheVars, ringVars, cliVars, srvVars, idVars>>
    \/ \E h \in Handlers : HttpOther(h) /\ UNCHANGED <<cacheVars, ringVars, cliVars, srvVars, idVars>>
    \/ \E h \in Handlers, key \in Keys : PickPeerCall(h, key) /\ UNCHANGED <<cacheVars, ringVars, cliVars, srvVars, idVars>>
    \/ \E h \in Handlers : RegLock(h) /\ UNCHANGED <<cacheVars, ringVars, cliVars, srvVars, idVars>>
    \/ \E h \in Handlers : AliveServers(h) /\ UNCHANGED <<cacheVars, ringVars, cliVars, srvVars, idVars>>
    \/ \E h \in Handlers : PutServer(h) /\ UNCHANGED <<cacheVars, ringVars, cliVars, srvVars, idVars>>
    \/ \E h \in Handlers : PickPeer(h) /\ UNCHANGED <<cacheVars, ringVars, cliVars, srvVars, idVars>>
    \/ \E h \in Handlers : DeleteMap(h) /\ UNCHANGED <<cacheVars, ringVars, cliVars, srvVars, idVars>>
    \/ \E h \in Handlers : DeleteRing(h) /\ UNCHANGED <<cacheVars, ringVars, cliVars, srvVars, idVars>>
    \/ CleanupLock /\ UNCHANGED <<cacheVars, ringVars, cliVars, srvVars, idVars>>
    \/ Cleanup /\ UNCHANGED <<cacheVars, ringVars, cliVars, srvVars, idVars>>
    \/ Tick /\ UNCHANGED <<cacheVars, ringVars, cliVars, srvVars, idVars>>

SpecRegistry == InitRegistry /\ [][NextRegistry]_vars

\* the next step of goroutine g as regProc shows it: a goroutine at Lock
\* goes on when p.mu is free, every other started goroutine goes on freely
Runs(g) ==
    /\ regProc[g].pc # "idle"
    /\ regProc[g].pc \in {"lock", "due"} => mu = 0
    /\ regProc' = [regProc EXCEPT ![g] =
                       CASE @.pc \in {"lock", "due"} -> [@ EXCEPT !.pc = "locked"]
                         [] @.pc = "del_map" -> [@ EXCEPT !.pc = "del_ring"]
                         [] OTHER -> IdleHandler]

\* the scheduling of the registry: the ticker keeps firing, and the reaper
\* and every handler that has started take their next step
RegistryFair ==
    /\ WF_vars(Tick /\ UNCHANGED <<cacheVars, ringVars, cliVars, srvVars, idVars>>)
    /\ \A g \in Handlers \cup {Reaper} : WF_regProc(Runs(g))

\* the registry with its reaper, driven by the requests that carry a server
\* address and by lookups of one key
NextReaper ==
    \/ \E h \in Handlers : HttpGet(h) /\ UNCHANGED <<cacheVars, ringVars, cliVars, srvVars, idVars>>
    \/ \E h \in Handlers, addr \in Peers : HttpPost(h, addr) /\ UNCHANGED <<cacheVars, ringVars, cliVars, srvVars, idVars>>
    \/ \E h \in Handlers, addr \in Peers : HttpDelete(h, addr) /\ UNCHANGED <<cacheVars, ringVars, cliVars, srvVars, idVars>>
    \/ \E h \in Handlers : PickPeerCall(h, <<107>>) /\ UNCHANGED <<cacheVars, ringVars, cliVars, srvVars, idVars>>
    \/ \E h \in Handlers : RegLock(h) /\ UNCHANGED <<cacheVars, ringVars, cliVars, srvVars, idVars>>
    \/ \E h \in Handlers : AliveServers(h) /\ UNCHANGED <<cacheVars, ringVars, cliVars, srvVars, idVars>>
    \/ \E h \in Handlers : PutServer(h) /\ UNCHANGED <<cacheVars, ringVars, cliVars, srvVars, idVars>>
    \/ \E h \in Handlers : PickPeer(h) /\ UNCHANGED <<cacheVars, ringVars, cliVars, srvVars, idVars>>
    \/ \E h \in Handlers : DeleteMap(h) /\ UNCHANGED <<cacheVars, ringVars, cliVars, srvVars, idVars>>
    \/ \E h \in Handlers : DeleteRing(h) /\ UNCHANGED <<cacheVars, ringVars, cliVars, srvVars, idVars>>
    \/ CleanupLock /\ UNCHANGED <<cacheVars, ringVars, cliVars, srvVars, idVars>>
    \/ Cleanup /\ UNCHANGED <<cacheVars, ringVars, cliVars, srvVars, idVars>>
    \/ Tick /\ UNCHANGED <<cacheVars, ringVars, cliVars, srvVars, idVars>>

SpecRegistryLive == InitRegistry /\ [][NextReaper]_vars /\ RegistryFair

InitClient == CliInit /\ CacheIdle /\ RingIdle /\ RegInit /\ SrvInit /\ SnowIdle

NextClient ==
    \/ \E c \in Callers : GoCall(c) /\ UNCHANGED <<cacheVars, ringVars, regVars, srvVars, idVars>>
    \/ \E c \in Callers : CallCall(c) /\ UNCHANGED <<cacheVars, ringVars, regVars, srvVars, idVars>>
    \/ \E c \in Callers : CallReturn(c) /\ UNCHANGED <<cacheVars, ringVars, regVars, srvVars, idVars>>
    \/ \E c \in Callers : CallCancel(c) /\ UNCHANGED <<cacheVars, ringVars, regVars, srvVars, idVars>>
    \/ \E c \in Callers : SendLock(c) /\ UNCHANGED <<cacheVars, ringVars, regVars, srvVars, idVars>>
    \/ \E c \in Callers : RegisterCall(c) /\ UNCHANGED <<cacheVars, ringVars, regVars, srvVars, idVars>>
    \/ \E c \in Callers : Write(c) /\ UNCHANGED <<cacheVars, ringVars, regVars, srvVars, idVars>>
    \/ ClientClose /\ UNCHANGED <<cacheVars, ringVars, regVars, srvVars, idVars>>
    \/ \E s \in 1..MaxSends, kind \in ResponseKinds :
          Receive(s, kind) /\ UNCHANGED <<cacheVars, ringVars, regVars, srvVars, idVars>>
    \/ ReadFail /\ UNCHANGED <<cacheVars, ringVars, regVars, srvVars, idVars>>
    \/ TerminateCalls /\ UNCHANGED <<cacheVars, ringVars, regVars, srvVars, idVars>>

SpecClient == InitClient /\ [][NextClient]_vars

\* the client whose caller passes one buffered done channel to every Go
NextShared ==
    \/ \E c \in Callers : GoShared(c) /\ UNCHANGED <<cacheVars, ringVars, regVars, srvVars, idVars>>
    \/ \E c \in Callers : SendLock(c) /\ UNCHANGED <<cacheVars, ringVars, regVars, srvVars, idVars>>
    \/ \E c \in Callers : RegisterCall(c) /\ UNCHANGED <<cacheVars, ringVars, regVars, srvVars, idVars>>
    \/ \E c \in Callers : Write(c) /\ UNCHANGED <<cacheVars, ringVars, regVars, srvVars, idVars>>
    \/ \E c \in Callers : SendDone(c) /\ UNCHANGED <<cacheVars, ringVars, regVars, srvVars, idVars>>
    \/ Drain /\ UNCHANGED <<cacheVars, ringVars, regVars, srvVars, idVars>>
    \/ ClientClose /\ UNCHANGED <<cacheVars, ringVars, regVars, srvVars, idVars>>
    \/ \E s \in 1..MaxSends, kind \in ResponseKinds :
          Receive(s, kind) /\ UNCHANGED <<cacheVars, ringVars, regVars, srvVars, idVars>>
    \/ ReceiveDone /\ UNCHANGED <<cacheVars, ringVars, regVars, srvVars, idVars>>
    \/ ReadFail /\ UNCHANGED <<cacheVars, ringVars, regVars, srvVars, idVars>>
    \/ TerminateCalls /\ UNCHANGED <<cacheVars, ringVars, regVars, srvVars, idVars>>
    \/ TerminateDone /\ UNCHANGED <<cacheVars, ringVars, regVars, srvVars, idVars>>

\* the scheduling of the client: the receiver and every caller inside send
\* take their next step; a caller is free not to receive from its channel
ClientFair ==
    /\ WF_vars(ReceiveDone /\ UNCHANGED <<cacheVars, ringVars, regVars, srvVars, idVars>>)
    /\ WF_vars(TerminateCalls /\ UNCHANGED <<cacheVars, ringVars, regVars, srvVars, idVars>>)
    /\ WF_vars(TerminateDone /\ UNCHANGED <<cacheVars, ringVars, regVars, srvVars, idVars>>)
    /\ \A c \in Callers :
          WF_vars((SendLock(c) \/ RegisterCall(c) \/ Write(c) \/ SendDone(c))
                  /\ UNCHANGED <<cacheVars, ringVars, regVars, srvVars, idVars>>)

SpecClientLive == InitClient /\ [][NextShared]_vars /\ ClientFair

InitServer ==
    /\ SrvInit
    /\ lru = CacheNew(0) /\ out = NoOut /\ SfInit
    /\ RingIdle /\ RegInit /\ CliInit /\ SnowIdle

NextServer ==
    \/ \E opt \in Options : ServeConn(opt) /\ UNCHANGED <<groupVars, out, ringVars, regVars, cliVars, idVars>>
    \/ ReadHeaderFail /\ UNCHANGED <<groupVars, out, ringVars, regVars, cliVars, idVars>>
    \/ \E method \in Methods, key \in Keys, value \in Values, bodyOk \in BOOLEAN :
          ReadRequest(method, key, value, bodyOk)
              /\ UNCHANGED <<groupVars, out, ringVars, regVars, cliVars, idVars>>
    \/ \E i \in 1..MaxConnReqs, res \in Results :
          Operate(i, res) /\ UNCHANGED <<groupVars, out, ringVars, regVars, cliVars, idVars>>
    \/ \E i \in 1..MaxConnReqs : Called(i) /\ UNCHANGED <<groupVars, out, ringVars, regVars, cliVars, idVars>>
    \/ \E i \in 1..MaxConnReqs : HandlerSend(i) /\ UNCHANGED <<groupVars, out, ringVars, regVars, cliVars, idVars>>
    \/ \E i \in 1..MaxConnReqs : Sent(i) /\ UNCHANGED <<groupVars, out, ringVars, regVars, cliVars, idVars>>
    \/ \E i \in 1..MaxConnReqs : Timeout(i) /\ UNCHANGED <<groupVars, out, ringVars, regVars, cliVars, idVars>>
    \/ ServeCodecReturn /\ UNCHANGED <<groupVars, out, ringVars, regVars, cliVars, idVars>>

SpecServer == InitServer /\ [][NextServer]_vars

\* the scheduling of the server: the goroutine of a dispatched request takes
\* its next step, a channel operation when its partner is there; the timer
\* of HandleTimeout is free to fire or not before the handler signals
ServerFair ==
    \A i \in 1..MaxConnReqs :
       /\ WF_vars((\E res \in Results : Operate(i, res))
                     /\ UNCHANGED <<groupVars, out, ringVars, regVars, cliVars, idVars>>)
       /\ WF_vars((Called(i) \/ HandlerSend(i) \/ Sent(i))
                     /\ UNCHANGED <<groupVars, out, ringVars, regVars, cliVars, idVars>>)

SpecServerLive == InitServer /\ [][NextServer]_vars /\ ServerFair

InitSnowflake ==
    /\ SnowInit
    /\ CacheIdle /\ RingIdle /\ RegInit /\ CliInit /\ SrvInit

NextSnowflake ==
    \/ Generate /\ UNCHANGED <<cacheVars, ringVars, regVars, cliVars, srvVars>>
    \/ Spin /\ UNCHANGED <<cacheVars, ringVars, regVars, cliVars, srvVars>>
    \/ Millisecond /\ UNCHANGED <<cacheVars, ringVars, regVars, cliVars, srvVars>>

SpecSnowflake == InitSnowflake /\ [][NextSnowflake]_vars

(***************************************************************************)
(* Properties.                                                             *)
(***************************************************************************)
\* the goroutines inside a thunk (fn, or load up to its return) for key
Executing(key) ==
    {p \in Procs : proc[p].key = key /\ proc[p].pc \in {"in_fn", "populate"}}

GetInFlight(key) ==
    \E p \in Procs : proc[p].pc # "idle" /\ proc[p].op = "Get" /\ proc[p].key = key

\* two or more Get(key) that all started before any of them returned, on a cache
\* that was cold and saw no Insert or Delete, have all returned
ColdGetsDone(key) ==
    /\ hist.gets[key] >= 2
    /\ ~hist.serial[key]
    /\ ~hist.mutated
    /\ ~GetInFlight(key)

C2_OneThunkPerKey ==
    \A key \in Keys : Cardinality(Executing(key)) <= 1

C2_Witness ==
    \E key \in Keys :
        /\ Executing(key) # {}
        /\ \E q \in Procs : proc[q].key = key /\ proc[q].pc = "wait"
        /\ \E q \in Procs : proc[q].key = key /\ proc[q].pc = "enter"

\* C3: a Do that found a call in flight runs no thunk of its own, returns only
\* after that call's thunk has finished, and returns the pair the thunk produced;
\* all callers served by one call return the same pair.
C3_WaitersShareResult ==
    /\ hist.ret.role = "waiter" =>
          /\ ~hist.ret.ran
          /\ hist.ret.fin
          /\ hist.ret.wg = 0
          /\ Pair(hist.ret) = Pair(call[hist.ret.c])
          /\ Pair(hist.ret) \in Results
    /\ \A c \in DOMAIN call :
          /\ Cardinality(call[c].got) <= 1
          /\ call[c].got \subseteq {Pair(call[c])}

C3_Witness ==
    /\ hist.ret.role = "waiter"
    /\ Pair(hist.ret) \in Results
    /\ \E p \in Procs : proc[p].pc = "wait" /\ proc[p].c = hist.ret.c

\* the bytes charged for the entries the cache holds
RECURSIVE SumBytes(_, _)
SumBytes(c, ids) ==
    IF ids = {} THEN 0
    ELSE LET e == CHOOSE x \in ids : TRUE
         IN Len(c.elem[e].key) + ValueLen(c.elem[e].value) + SumBytes(c, ids \ {e})

StoredBytes(c) == SumBytes(c, SeqRange(c.ll) \cup Range(c.cache))

\* C4: with capacity C > 0, after every Add, Get and Delete the stored entries
\* charge at most C bytes.
C4_WithinCapacity ==
    lru.maxBytes > 0 => StoredBytes(lru) <= lru.maxBytes

C4_Witness ==
    /\ lru.maxBytes > 0
    /\ out.op = "Add"
    /\ Len(lru.evicted) = 2
    /\ lru.ll = <<>>

Fits(c, key, value) == c.maxBytes = 0 \/ Len(key) + ValueLen(value) <= c.maxBytes

\* C5: a Get(k) that directly follows Insert(k, v) on the node, with
\* len(k) + len(v) within the capacity, is a hit that returns v.
C5_InsertThenGet ==
    (/\ hist.last.op = "Get"
     /\ hist.prev.op = "Insert"
     /\ hist.prev.key = hist.last.key
     /\ Fits(lru, hist.prev.key, hist.prev.value))
        => /\ hist.last.ok
           /\ ByteSlice(hist.last.value) = ByteSlice(hist.prev.value)

C5_Witness ==
    /\ hist.last.op = "Get"
    /\ hist.prev.op = "Insert"
    /\ hist.prev.key = hist.last.key
    /\ lru.maxBytes > 0
    /\ Fits(lru, hist.prev.key, hist.prev.value)
    /\ hist.last.ok
    /\ hist.ret = Direct("Get", hist.prev.key, "hit", hist.prev.value, "")
    /\ Len(lru.ll) = 1
    /\ hist.ops = 3

\* C6: after any sequence of Add and Remove leaving the peer set P, a Get
\* returns a member of P when P is not empty, and the empty string exactly
\* when P is empty
C6_GetReturnsPeer ==
    ringHist.op = "Get" =>
        /\ ringHist.P # {} => ringHist.ret \in ringHist.P
        /\ ringHist.ret = <<>> <=> ringHist.P = {}

\* C7: after any sequence of Add and Remove (an Add of a present peer
\* included) leaving the peer set P, the ordered hash sequence is strictly
\* ascending and has exactly replicas * |P| elements
C7_AscendingRTimesP ==
    /\ \A i \in 1..(Len(ring.keys) - 1) : Less(ring.keys[i], ring.keys[i + 1])
    /\ Len(ring.keys) = ring.replicas * Cardinality(ringHist.P)

\* no registry operation is mid-execution
Quiescent == mu = 0 /\ \A h \in 1..Reaper : regProc[h].pc \in {"idle", "due"}

\* the peers that have virtual nodes on a ring
RingPeers(mp) == {mp.hashMap[k] : k \in SeqRange(mp.keys) \cap DOMAIN mp.hashMap}

\* in every quiescent state the table and the registry's ring hold the same peers
TableMirrorsRing == Quiescent => DOMAIN reg.timeMap = RingPeers(reg.peers)

\* a step that changes the table or the ring is taken with the mutex held
MutationsUnderMutex == reg' # reg => mu # 0

\* C8: under every interleaving of POST, DELETE, GET, PickPeer and the
\* reaper, in every state with no registry operation mid-execution the
\* peers of the last-seen table are the peers with virtual nodes on the
\* registry's ring, and every change of the table or the ring is made while
\* the registry mutex is held
C8_TableMirrorsRingUnderMutex == []TableMirrorsRing /\ [][MutationsUnderMutex]_vars

\* C9: a GET that directly follows an accepted POST for a, within the TTL,
\* lists a; a GET that directly follows a DELETE for a does not list a
C9_PostThenGetDeleteThenGet ==
    regHist.last.op = "GET" =>
        /\ (/\ regHist.prev.op = "POST" /\ regHist.prev.status = 200
            /\ regHist.last.time < regHist.prev.time + defaultTimeout)
              => regHist.prev.addr \in SeqRange(regHist.last.list)
        /\ (/\ regHist.prev.op = "DELETE" /\ regHist.prev.status = 200
            /\ regHist.prev.clean)
              => regHist.prev.addr \notin SeqRange(regHist.last.list)

\* a GET some minutes after a POST refreshed a server that would have expired
C9_Witness ==
    /\ regHist.last.op = "GET"
    /\ regHist.prev.op = "POST" /\ regHist.prev.status = 200
    /\ regHist.prev.time >= defaultTimeout
    /\ regHist.last.time > regHist.prev.time
    /\ regHist.prev.addr \in SeqRange(regHist.last.list)

\* C10: the Seqs of the request headers on the wire of one connection, in
\* write order, are 1, 2, 3, ...: unique, strictly increasing, contiguous
\* from 1, whatever the number of concurrent callers
C10_WireSeqsContiguous == \A i \in 1..Len(wire) : wire[i] = i

\* a request is on the wire, a caller is writing the next and another
\* caller waits for client.sending
C10_Witness ==
    /\ Len(wire) >= 1
    /\ \E c, d \in Callers : cliProc[c].pc = "write" /\ cliProc[d].pc = "send"

\* C11: every Call is signalled on its Done channel at most once, and a
\* signalled Call either has a nil Error and the Reply read from the
\* response body that carried its Seq, or has a non-nil Error
C11_CompletedOnce ==
    \A s \in DOMAIN cli.calls :
        /\ cli.calls[s].dones <= 1
        /\ cli.calls[s].dones = 1 =>
              \/ cli.calls[s].error = "" /\ cli.calls[s].reply = s
              \/ cli.calls[s].error # ""

\* one Call completed with its reply, one with the server's error, and one
\* failed by terminateCalls
C11_Witness ==
    \E r, e, f \in DOMAIN cli.calls :
        /\ cli.calls[r].dones = 1 /\ cli.calls[r].error = "" /\ cli.calls[r].reply = r
        /\ cli.calls[e].dones = 1 /\ cli.calls[e].error = "server"
        /\ cli.calls[f].dones = 1 /\ cli.calls[f].error = "read"

\* C12: once the receiver has hit a read failure and run terminateCalls, the
\* client is shutdown, every Call that was in the pending table is completed
\* with the read error, and every Go or Call issued afterwards is refused
\* with 'connection is shut down', neither registered nor written
C12_ShutdownAfterReadFailure ==
    /\ cli.recv = "done" =>
          /\ cli.shutdown
          /\ \A s \in cliHist.terminated :
                cli.calls[s].error = "read" /\ cli.calls[s].dones = 1
    /\ ~cliHist.lateRegistered
    /\ \A c \in Callers :
          cliProc[c].late =>
              /\ cliProc[c].pc \in {"send", "register", "select"}
              /\ cliProc[c].seq = 0
              /\ cliProc[c].pc = "select" => cliProc[c].refused

\* terminateCalls failed a pending Call, and a Call issued afterwards has
\* been refused
C12_Witness ==
    /\ cli.recv = "done"
    /\ cliHist.terminated # {}
    /\ \E c \in Callers :
          cliProc[c].late /\ cliProc[c].pc = "select" /\ cliProc[c].refused

\* a response with the Seq of a cancelled Call is read
DropsCancelled(s) ==
    s \in cliHist.cancelled /\ s \in cliHist'.responded \ cliHist.responded

\* C13: a Call that returns on its cancelled context returns the 'call
\* failed' error and leaves no entry for its Seq in the pending table, and
\* a response that arrives later with that Seq changes no Call and no
\* entry of the pending table
C13_CancelRemovesCall ==
    /\ [](cliHist.cancelled \cap cli.pending = {})
    /\ [](cliHist.ret.kind = "cancel" => cliHist.ret.error = "rpc client: call failed")
    /\ [][\A s \in 1..MaxSends :
            DropsCancelled(s) => cli'.calls = cli.calls /\ cli'.pending = cli.pending]_vars

\* the response to a cancelled Call has arrived while another Call is pending
C13_Witness ==
    /\ cliHist.cancelled \cap cliHist.responded # {}
    /\ cli.pending # {}
    /\ cliHist.ret.kind = "cancel"

\* C19: after Add(k, v) on a cache of capacity C > 0 with len(k) + v.Len()
\* above C, every entry stored before is evicted and the cache holds exactly
\* the new entry (k, v)
C19_OversizeLeavesNewEntry ==
    (/\ out.op = "Add"
     /\ lru.maxBytes > 0
     /\ Len(out.key) + ValueLen(out.value) > lru.maxBytes)
        => /\ DOMAIN lru.cache = {out.key}
           /\ lru.elem[lru.cache[out.key]].value = out.value

\* the registry step is a PickPeer for key by handler h
PickStep(h) ==
    /\ regProc[h].pc = "locked" /\ regProc[h].op = "Pick"
    /\ regProc'[h].pc = "idle"

\* C20: a PickPeer whose ring lookup selects a peer with a last-seen time
\* older than the TTL returns the empty string and leaves that peer in
\* neither the table nor the ring; one that selects a peer within the TTL
\* returns the peer and changes neither the table nor the ring
C20_PickPeerExpires ==
    [][\A h \in Handlers :
         PickStep(h) =>
           LET sel == MapGet(reg.peers, regProc[h].addr) IN
           (sel # <<>> /\ sel \in DOMAIN reg.timeMap) =>
              IF reg.timeMap[sel] + reg.timeout < now
              THEN /\ regHist'.last.list = <<>>
                   /\ sel \notin DOMAIN reg'.timeMap
                   /\ sel \notin RingPeers(reg'.peers)
              ELSE /\ regHist'.last.list = <<sel>>
                   /\ reg' = reg]_vars

\* a PickPeer directly after a POST found the only peer expired and removed it
C20_Witness ==
    /\ regHist.last.op = "Pick" /\ regHist.last.status = 200
    /\ regHist.last.list = <<>>
    /\ regHist.prev.op = "POST" /\ regHist.prev.status = 200
    /\ DOMAIN reg.timeMap = {}
    /\ reg.peers.keys = <<>>
    /\ now > defaultTimeout

\* the request a response on the connection answers
Answered(w) == req[w.seq]

\* the responses written for the request with header Seq i
Responses(i) == {k \in DOMAIN srv.written : srv.written[k].seq = i}

\* what the caller's reply variable holds after the client received w: the
\* body is decoded into it only when the header carries no error
ClientReply(w) == IF w.error # "" THEN Text("") ELSE w.body

\* C14: the response the handler writes for a 'Group.Get' of an absent key
\* whose origin loader returned an error carries that error's text in
\* Header.Error
C14_GetErrorInHeader ==
    \A k \in DOMAIN srv.written :
       LET w == srv.written[k] IN
       (/\ w.by = "handler"
        /\ Answered(w).method = "Group.Get"
        /\ ~Answered(w).present
        /\ Answered(w).gerr # "")
           => w.error = Answered(w).gerr

\* C15: after the handler's response to a 'Group.Delete', the client's reply
\* variable holds "Delete failed" when the key was absent, and "Delete
\* successful" with the key no longer cached when it was present
C15_DeleteReply ==
    \A k \in DOMAIN srv.written :
       LET w == srv.written[k] IN
       (w.by = "handler" /\ Answered(w).method = "Group.Delete")
           => IF Answered(w).present
              THEN /\ ClientReply(w) = Text("Delete successful")
                   /\ ~Answered(w).cachedAfter
              ELSE ClientReply(w) = Text("Delete failed")

\* C16: once the server is done with the connection, every request it read
\* with a ServiceMethod outside the three supported ones has a response
\* with its Seq and Header.Error "rpc server: unknown method " + method
C16_UnknownMethodAnswered ==
    srv.state = "closed" =>
       \A i \in DOMAIN req :
          req[i].method \notin {"Group.Get", "Group.Insert", "Group.Delete"}
             => \E k \in Responses(i) :
                   srv.written[k].error = UnknownMethod(req[i].method)

\* C17: with HandleTimeout > 0 a dispatched request never has two responses
\* and has exactly one once handleRequest returned: the handler's result
\* when the handler got past called, the handle-timeout error otherwise,
\* with the late handler never past called; and nothing but a failed read
\* takes the server out of its request loop
C17_OneResponsePerRequest ==
    srv.opt.HandleTimeout > 0 =>
       /\ \A i \in DOMAIN req :
             req[i].disp =>
               /\ Cardinality(Responses(i)) <= 1
               /\ req[i].outer = "done" => Cardinality(Responses(i)) = 1
               /\ \A k \in Responses(i) :
                     LET w == srv.written[k] IN
                     \/ /\ w.by = "handler"
                        /\ req[i].inner \in {"sent", "done"}
                        /\ w.error = req[i].err
                        /\ w.body = IF req[i].err = "" THEN req[i].replyv
                                    ELSE invalidRequest
                     \/ /\ w.by = "timeout"
                        /\ w.error = HandleTimeoutError
                        /\ w.body = invalidRequest
                        /\ req[i].inner \in {"switch", "called"}
       /\ (srv.entered /\ srv.stop = "none") => srv.state = "loop"

\* the first request timed out with its handler left at called, and the
\* second, read after that, was answered by its handler
C17_Witness ==
    /\ srv.opt.HandleTimeout > 0
    /\ Len(req) = 2 /\ Len(srv.written) = 2
    /\ srv.written[1].seq = 1 /\ srv.written[1].by = "timeout"
    /\ req[1].inner = "called" /\ req[1].outer = "done"
    /\ srv.written[2].seq = 2 /\ srv.written[2].by = "handler"
    /\ req[2].outer = "done"

\* the Option does not decode, has another MagicNumber or names a codec
\* type without a constructor
Rejected(opt) ==
    \/ ~opt.decodes
    \/ opt.MagicNumber # MagicNumber
    \/ opt.CodecType \notin NewCodecFuncMap

\* C18: after the handshake a connection whose Option was rejected is closed
\* with no request read and no response written, and any other connection
\* has entered the request loop
C18_HandshakeGate ==
    srv.state # "accept" =>
       IF Rejected(srv.opt)
       THEN /\ srv.state = "closed" /\ ~srv.entered
            /\ req = <<>> /\ srv.written = <<>>
       ELSE srv.entered

\* a connection closed for its MagicNumber alone
C18_Witness ==
    /\ srv.state = "closed" /\ ~srv.entered
    /\ srv.opt.decodes
    /\ srv.opt.MagicNumber # MagicNumber
    /\ srv.opt.CodecType \in NewCodecFuncMap

C22_NodeIDMod1024 ==
    /\ sf.nodeID = Mod32(Fnv32a(offset32, Addr(sf.ip, sf.port)), 2 ^ nodeBits)
    /\ ~sf.err

\* the goroutines inside Do(key) that are past the in-flight lookup
Entered(p) == proc[p].op = "Do" /\ proc[p].pc \notin {"idle", "enter"}

\* the step is the return of the Do of p that ran the thunk
LeaderReturns(p) == proc[p].op = "Do" /\ proc[p].pc = "unmark" /\ proc'[p].pc = "idle"

VirtualHashes(mp, q) == {Hash(mp.hash, Itoa(i) \o q) : i \in 0..(mp.replicas - 1)}

\* every virtual hash of q is in the ordered sequence and mapped to a peer
\* of P that has it as a virtual hash: q, or a peer that collides with q
OnRing(mp, q, P) ==
    \A h \in VirtualHashes(mp, q) :
       /\ h \in SeqRange(mp.keys)
       /\ h \in DOMAIN mp.hashMap
       /\ mp.hashMap[h] \in P
       /\ h \in VirtualHashes(mp, mp.hashMap[h])

\* C25: a Remove(p) leaves every other peer q that was on the ring on the
\* ring: each virtual hash of q stays in the ordered sequence and stays
\* mapped to q or to a present peer that collides with q on it
C25_RemoveKeepsOthers ==
    [][(ringHist'.op = "Remove" /\ ringHist'.ops = ringHist.ops + 1) =>
          \A q \in ringHist'.P :
             OnRing(ring, q, ringHist.P) => OnRing(ring', q, ringHist'.P)]_vars

\* C26: the entries an Add evicts are the least recent ones, the least
\* recent first, where the latest Add or Get hit of a key makes it the most
\* recent; the eviction stops as soon as the byte count is at most the
\* capacity, and with capacity 0 nothing is evicted
C26_EvictsLeastRecentFirst ==
    [][out'.op = "Add" =>
         LET R == Touch(out.recent, out'.key)
             E == lru'.evicted
             n == Len(E)
         IN /\ lru.maxBytes = 0 => n = 0
            /\ n <= Len(R)
            /\ \A i \in 1..n : E[i].key = R[Len(R) - i + 1]
            /\ lru.maxBytes # 0 => lru'.nbytes <= lru.maxBytes
            /\ n >= 1 => lru'.nbytes + Len(E[n].key) + ValueLen(E[n].value)
                            > lru.maxBytes]_vars

\* an Add of a third key evicted exactly one entry, the least recent one,
\* and kept the other
C26_Witness ==
    /\ out.op = "Add" /\ lru.maxBytes > 0
    /\ Len(lru.evicted) = 1
    /\ out.recent = <<<<107, 107>>, <<107>>>>
    /\ lru.evicted[1].key = <<106>>

\* the byte count, the index and the recency list agree
Accounted(c) ==
    /\ c.nbytes = SumBytes(c, SeqRange(c.ll))
    /\ \A i, j \in 1..Len(c.ll) : c.ll[i] = c.ll[j] => i = j
    /\ Range(c.cache) = SeqRange(c.ll)
    /\ \A k \in DOMAIN c.cache : c.elem[c.cache[k]].key = k
    /\ CacheLen(c) = Cardinality(DOMAIN c.cache)

\* C30: after every Add, Get, Delete and eviction the byte count is the sum
\* of len(key) + value.Len() over the stored entries, the index and the
\* recency list hold the same entries with one entry per key, and Len() is
\* the number of stored keys; a Delete of an absent key returns the
\* not-found error and changes none of them
C30_Accounting ==
    /\ []Accounted(lru)
    /\ [][(out'.op = "Delete" /\ out'.key \notin DOMAIN lru.cache) =>
             /\ out'.err = "key not found"
             /\ lru'.nbytes = lru.nbytes /\ lru'.ll = lru.ll
             /\ lru'.cache = lru.cache /\ lru'.elem = lru.elem]_vars

\* a Delete of an absent key on a cache that holds two entries of 5 bytes
C30_Witness ==
    /\ out.op = "Delete" /\ out.err = "key not found"
    /\ CacheLen(lru) = 2
    /\ lru.nbytes = 5

\* peer a is in neither the last-seen table nor the ring
Absent(a) == a \notin DOMAIN reg.timeMap /\ a \notin RingPeers(reg.peers)

\* a is in the table with a last-seen time whose TTL ends before the clock
\* of the model stops
Early(a) == a \in DOMAIN reg.timeMap /\ reg.timeMap[a] + reg.timeout < MaxTime

\* a is in the table with a last-seen time a POST set too late for that
Refreshed(a) == a \in DOMAIN reg.timeMap /\ reg.timeMap[a] + reg.timeout >= MaxTime

\* the step is the putServer of a POST for a
PostStep(a) ==
    \E h \in Handlers :
       /\ regProc[h].pc = "locked" /\ regProc[h].op = "POST" /\ regProc[h].addr = a
       /\ regProc'[h].pc = "idle"

\* C27: with the reaper running, a peer registered by POST is in the end in
\* neither the table nor the ring unless a later POST refreshes it; and
\* while no POST for it arrives an absent peer stays absent, no GET lists
\* it and no PickPeer returns it
C27_ReaperRemovesSilentPeer ==
    /\ \A a \in Peers : Early(a) ~> (Absent(a) \/ Refreshed(a))
    /\ [][\A a \in Peers :
            (Absent(a) /\ ~PostStep(a)) =>
               /\ Absent(a)'
               /\ regHist'.last = regHist.last
                    \/ a \notin SeqRange(regHist'.last.list)]_vars

\* the reaper's sweep removed the only peer, which no GET or PickPeer had
\* touched since its POST
C27_Witness ==
    /\ regHist.last.op = "Cleanup"
    /\ regHist.prev.op = "POST" /\ regHist.prev.status = 200
    /\ Absent(regHist.prev.addr)
    /\ reg.peers.keys = <<>>
    /\ now > defaultTimeout

\* C29: the receiver does not wait for ever in the completion signal of a
\* Call, whether or not the caller receives from the done channel its calls
\* share: a receiver inside call.done() leaves it, and terminateCalls, once
\* begun, ends with client.sending and client.mu unlocked
C29_ReceiverSignalsAndGoesOn ==
    /\ (cli.recv = "signal") ~> (cli.recv # "signal")
    /\ (cli.recv \in {"terminate", "stuck"}) ~> (cli.recv = "done" /\ cli.sending # Receiver)

\* C28: the goroutine handleRequest starts for a request returns once the
\* Group operation has returned, also when the timer of HandleTimeout fired
\* before it signalled on called
C28_HandlerTaskTerminates ==
    \A i \in 1..MaxConnReqs :
        (i \in DOMAIN req /\ req[i].inner = "called") ~>
            (i \in DOMAIN req /\ req[i].inner = "done")

\* the ring the event the watcher is applying leaves when it is complete
WholeAfter ==
    IF ringHist.w.pc = "idle" THEN ring
    ELSE IF ringHist.w.type = "PUT" THEN MapAdd(ringHist.pre, ringHist.w.value)
    ELSE MapRemove(ringHist.pre, ringHist.w.value)

\* C24: in discovery mode a Get of the lookup handler that runs while the
\* watcher applies an Add or a Remove reads the ring as it was before the
\* mutation or as it is after the whole mutation, and returns what Get
\* returns on one of the two
C24_GetSeesWholeRing ==
    [][ringHist'.flip # ringHist.flip =>
          /\ ring \in {ringHist.pre, WholeAfter}
          /\ ringHist'.ret \in {MapGet(ringHist.pre, ringHist'.arg),
                                 MapGet(WholeAfter, ringHist'.arg)}]_vars

====
